---- MODULE Spec2Model ----
(***************************************************************************)
(* PlumFinder: the item tracker (src/src/database/tracker.py), the adapter *)
(* de-duplication loop (src/src/scrapers/*.py: search_all_terms), the      *)
(* ranking function and the pipeline orchestrator (src/src/main.py).       *)
(*                                                                         *)
(* Units.  color_score is kept in thousandths (0..1000), prices in whole   *)
(* dollars, distances in whole miles, ages in whole hours, the clock in    *)
(* whole days.  calculate_score is kept as an exact integer numerator over *)
(* ScoreDen.  One pipeline run takes place within one clock value.         *)
(***************************************************************************)
EXTENDS Integers, Sequences, FiniteSets, TLC

VARIABLES
    \* ---- the persistent store (tracker.py, two tables)
    seen_items,      \* id -> row of seen_items (the ids that have a row)
    email_history,   \* sequence of rows of email_history
    now,             \* the wall clock, in days
    \* ---- run_pipeline: position and locals
    pc,              \* position of run_pipeline
    si,              \* index of the scraper the scrape loop is at
    items,           \* list returned by the latest search_all_terms
    all_items,
    new_items,
    plum_items,
    top_items,
    success,         \* result of send_digest
    exc,             \* exception escaping run_pipeline ("none" if none)
    closed,          \* components closed by the finally block
    \* ---- one adapter's search_all_terms, step by step
    adapter,         \* the adapter that runs
    adapter_pc,      \* position of search_all_terms
    term_i,          \* index of the term the loop is at
    acc_items,       \* all_items of search_all_terms
    seen_ids,        \* seen_ids of search_all_terms
    \* ---- direct calls of the tracker
    filter_input,    \* argument of the latest filter_new_items call
    filter_result,   \* its result
    store_before,    \* seen_items when it was called
    last_op,         \* the tracker operation called last
    deleted,         \* what the latest cleanup_old_items call returned
    \* ---- history
    log,             \* steps run_pipeline has executed in this run
    last_error,      \* the adapter whose search_all_terms raised last
    parsed_count,    \* items parsed by the searches of the latest adapter
    first_parsed,    \* id -> the item parsed first with that id, this adapter run
    last_parsed,     \* id -> the item parsed last with that id, this adapter run
    delivered,       \* ids of the digests for which send_digest returned True
    undelivered,     \* ids of digests whose send failed, row still retained
    \* ---- one call of retry_on_failure or of a with_exponential_backoff wrapper
    retry_fn,        \* which of the two executors runs
    max_retries,
    base_delay,
    max_delay,
    attempt,         \* the loop variable
    calls,           \* outcomes of the calls of the operation, in order
    sleeps,          \* arguments of the time.sleep calls, in order
    last_exception,  \* the local of that name
    retry_pc,        \* "loop", "returned" or "raised"
    retry_result,    \* what the executor returned or raised
    \* ---- the ResponseCache
    cache,           \* _cache: key -> <<data, expiry>>
    cache_now,       \* datetime.now(), in seconds
    cache_call,      \* the call just made: operation, key, result
    latest_set,      \* key -> data, time and ttl of the latest set since a clear
    \* ---- the RobotsChecker shared by the adapters
    parsers,         \* _parsers: domain -> the ruleset parsed for it
    fetch_times,     \* _fetch_times: domain -> time of the fetch of its robots.txt
    robots_now,      \* datetime.now(), in hours
    robots_log,      \* domain -> the fetches of its robots.txt: <<time, outcome>>
    robots_call,     \* the can_fetch call just made
    \* ---- one adapter instance and its search(query) calls
    sc,              \* the adapter
    sc_pc,           \* "ready", a fetch of search, "returned" or "raised"
    sc_step,         \* "check" (robots.txt) or "fetch", at a fetch of search
    sc_attempt,      \* attempt of retry_on_failure inside _fetch_with_retry
    sc_calls,        \* search calls made so far
    sc_query,        \* the query of the current call
    sc_items,        \* the list the call returned: "items" or "empty"
    use_api,         \* EbayScraper.use_api, EtsyScraper.use_api
    access_token,    \* EbayScraper holds an access token
    cookies_set,     \* EtsyScraper._cookies_set
    net,             \* robots checks, requests and sleeps of the current call
    pending_fetch,   \* the latest request of an earlier call had no sleep after it
    api_at_start,    \* use_api when the current call began
    \* ---- analyze_item and calculate_score called on given items
    an_item,         \* the item handed to ColorAnalyzer.analyze_item
    an_score,        \* what analyze_item returned
    rank_input,      \* plum_items before scoring and sorting
    rank_output      \* plum_items after them

vars == <<seen_items, email_history, now, pc, si, items, all_items, new_items,
          plum_items, top_items, success, exc, closed, adapter, adapter_pc,
          term_i, acc_items, seen_ids, filter_input, filter_result,
          store_before, last_op, deleted, log, last_error, parsed_count, first_parsed,
          last_parsed, delivered, undelivered,
          retry_fn, max_retries, base_delay, max_delay, attempt, calls,
          sleeps, last_exception, retry_pc, retry_result,
          cache, cache_now, cache_call, latest_set,
          parsers, fetch_times, robots_now, robots_log, robots_call,
          sc, sc_pc, sc_step, sc_attempt, sc_calls, sc_query, sc_items,
          use_api, access_token, cookies_set, net, pending_fetch, api_at_start,
          an_item, an_score, rank_input, rank_output>>

\* The variables of the pipeline, of the adapter loop and of the tracker calls.
coreVars == <<seen_items, email_history, now, pc, si, items, all_items, new_items,
              plum_items, top_items, success, exc, closed, adapter, adapter_pc,
              term_i, acc_items, seen_ids, filter_input, filter_result,
              store_before, last_op, deleted, log, last_error, parsed_count, first_parsed,
              last_parsed, delivered, undelivered>>

retryVars == <<retry_fn, max_retries, base_delay, max_delay, attempt, calls,
               sleeps, last_exception, retry_pc, retry_result>>

\* The variables of the scraper utilities (src/src/scrapers/utils.py).
cacheVars == <<cache, cache_now, cache_call, latest_set>>

robotsVars == <<parsers, fetch_times, robots_now, robots_log, robots_call>>

searchVars == <<sc, sc_pc, sc_step, sc_attempt, sc_calls, sc_query, sc_items,
                use_api, access_token, cookies_set, net, pending_fetch,
                api_at_start>>

pureVars == <<an_item, an_score, rank_input, rank_output>>

utilVars == <<retryVars, cacheVars, robotsVars, searchVars, pureVars>>

notPureVars == <<coreVars, retryVars, cacheVars, robotsVars, searchVars>>

notRetryVars == <<coreVars, cacheVars, robotsVars, searchVars, pureVars>>

notCacheVars == <<coreVars, retryVars, robotsVars, searchVars, pureVars>>

notRobotsVars == <<coreVars, retryVars, cacheVars, searchVars, pureVars>>

\* What a search call leaves alone: all but its own variables and the cache.
notSearchVars == <<coreVars, retryVars, robotsVars, cache_now, cache_call,
                   latest_set, pureVars>>

----------------------------------------------------------------------------
\* Bounds of the model.

NumTerms == 2          \* entries of config.SEARCH_TERMS that are modelled
MaxPerSearch == 2      \* longest list one search(term) returns
MaxNow == 100          \* the clock stops here
TickDays == 100        \* the clock advances by this much between two runs
MaxFilterLen == 2      \* longest list handed to a tracker operation directly
TrackerMaxNow == 180   \* the clock stops here when the tracker is called directly
TrackerTickDays == 90  \* the clock advances by this much between two calls
MaxEmails == 1         \* rows of email_history written by direct calls
MAX_ITEMS_PER_EMAIL == 2   \* config.MAX_ITEMS_PER_EMAIL (30), scaled to the catalogue

\* Program constants.

MAX_DISTANCE_MILES == 20
COLOR_THRESHOLD == 300       \* 0.3
RETENTION_DAYS == 90         \* cleanup_old_items(days=90)
ScoreDen == 20 * 21000       \* denominator of calculate_score's numerator

\* An Optional value: None, or Some(v).
None == <<>>

Some(v) == <<v>>

Val(o) == o[1]

----------------------------------------------------------------------------
\* Sequences.

Range(s) == {s[i] : i \in 1..Len(s)}

Min(a, b) == IF a <= b THEN a ELSE b

Max(a, b) == IF a >= b THEN a ELSE b

Ids(s) == {s[i].id : i \in 1..Len(s)}

NoDupIds(s) == \A i, j \in 1..Len(s) : i # j => s[i].id # s[j].id

SeqsUpTo(S, n) == UNION {[1..k -> S] : k \in 0..n}

RECURSIVE Flatten(_)
Flatten(ss) == IF ss = <<>> THEN <<>> ELSE Head(ss) \o Flatten(Tail(ss))

----------------------------------------------------------------------------
\* Text.  A string that the code searches in is a sequence of characters.

LowerChar(c) ==
    CASE c = "A" -> "a" [] c = "C" -> "c" [] c = "F" -> "f" [] c = "L" -> "l"
      [] c = "M" -> "m" [] c = "P" -> "p" [] c = "S" -> "s" [] c = "T" -> "t"
      [] c = "U" -> "u" [] OTHER -> c

Lower(s) == [i \in 1..Len(s) |-> LowerChar(s[i])]

Contains(hay, needle) ==
    \E i \in 1..(Len(hay) - Len(needle) + 1) :
        SubSeq(hay, i, i + Len(needle) - 1) = needle

nearby_cities ==
    << <<<<"p", "a", "l", "o", " ", "a", "l", "t", "o">>, 0>>,
       <<<<"m", "e", "n", "l", "o", " ", "p", "a", "r", "k">>, 3>>,
       <<<<"s", "t", "a", "n", "f", "o", "r", "d">>, 1>>,
       <<<<"m", "o", "u", "n", "t", "a", "i", "n", " ", "v", "i", "e", "w">>, 5>>,
       <<<<"l", "o", "s", " ", "a", "l", "t", "o", "s">>, 4>>,
       <<<<"r", "e", "d", "w", "o", "o", "d", " ", "c", "i", "t", "y">>, 7>>,
       <<<<"s", "u", "n", "n", "y", "v", "a", "l", "e">>, 8>>,
       <<<<"s", "a", "n", " ", "j", "o", "s", "e">>, 15>>,
       <<<<"s", "a", "n", "t", "a", " ", "c", "l", "a", "r", "a">>, 12>>,
       <<<<"c", "u", "p", "e", "r", "t", "i", "n", "o">>, 10>>,
       <<<<"s", "a", "n", " ", "m", "a", "t", "e", "o">>, 12>>,
       <<<<"f", "r", "e", "m", "o", "n", "t">>, 18>>,
       <<<<"o", "a", "k", "l", "a", "n", "d">>, 25>>,
       <<<<"s", "a", "n", " ", "f", "r", "a", "n", "c", "i", "s", "c", "o">>, 30>>,
       <<<<"s", "f">>, 30>> >>

RECURSIVE FirstCityMatch(_, _)
FirstCityMatch(location_lower, i) ==
    IF i > Len(nearby_cities) THEN MAX_DISTANCE_MILES
    ELSE IF Contains(location_lower, nearby_cities[i][1]) THEN nearby_cities[i][2]
    ELSE FirstCityMatch(location_lower, i + 1)

calculate_distance(location_str) ==
    IF location_str = None \/ Val(location_str) = <<>> THEN MAX_DISTANCE_MILES
    ELSE FirstCityMatch(Lower(Val(location_str)), 1)

----------------------------------------------------------------------------
\* Ranking (main.py).  The result is the numerator of the score over ScoreDen.

recency_score(item) ==
    IF item.posted_date # None THEN Max(0, 168 - Val(item.posted_date)) * 750
    ELSE 63000

price_score(item) ==
    IF item.price # None /\ Val(item.price) # 0 /\ Val(item.price) > 0
    THEN Max(0, 500 - Val(item.price)) * 126
    ELSE 31500

proximity_score(item) ==
    IF item.shippable THEN 63000
    ELSE IF item.distance_miles # None
         THEN Max(0, MAX_DISTANCE_MILES - Val(item.distance_miles)) * 3150
         ELSE 31500

\* A faulty variant of calculate_score: the colour term is left out.
calculate_score_without_color(item) ==
    recency_score(item) + price_score(item) + proximity_score(item)

\* calculate_score, lines 72-120: 0.4 colour, 0.3 recency, 0.15 price, 0.15
\* proximity.
calculate_score(item) ==
    item.color_score * 168 + recency_score(item) + price_score(item)
        + proximity_score(item)

\* A faulty variant of InsertByScore: an element goes before the elements of equal key.
RECURSIVE InsertBeforeEqual(_, _)
InsertBeforeEqual(sorted, x) ==
    IF sorted = <<>> THEN <<x>>
    ELSE IF Val(Head(sorted).score) > Val(x.score)
         THEN <<Head(sorted)>> \o InsertBeforeEqual(Tail(sorted), x)
         ELSE <<x>> \o sorted

\* list.sort(key=lambda x: x._score, reverse=True): stable, so an element goes
\* behind every element whose key is at least its own.  The field score is
\* the attribute _score.
RECURSIVE InsertByScore(_, _)
InsertByScore(sorted, x) ==
    IF sorted = <<>> THEN <<x>>
    ELSE IF Val(Head(sorted).score) >= Val(x.score)
         THEN <<Head(sorted)>> \o InsertByScore(Tail(sorted), x)
         ELSE <<x>> \o sorted

RECURSIVE SortByScoreDesc(_, _)
SortByScoreDesc(sorted, rest) ==
    IF rest = <<>> THEN sorted
    ELSE SortByScoreDesc(InsertByScore(sorted, Head(rest)), Tail(rest))

----------------------------------------------------------------------------
\* The tracker (tracker.py).  A timestamp is the clock value; the code compares
\* ISO-8601 texts of one format, which order as the instants do.

\* A faulty variant of is_seen: only an item that was sent counts as seen.
is_sent(store, item_id) ==
    item_id \in DOMAIN store /\ store[item_id].sent_in_email = 1

is_seen(store, item_id) == item_id \in DOMAIN store

\* A faulty variant of mark_seen: the row of a known id is replaced
\* (INSERT OR REPLACE) instead of having its last_seen_at updated.
mark_seen_replaces(store, item, t) ==
    [i \in DOMAIN store \cup {item.id} |->
        IF i = item.id
        THEN [url |-> item.url, title |-> item.title, source |-> item.source,
              first_seen_at |-> t, last_seen_at |-> t, sent_in_email |-> 0]
        ELSE store[i]]

\* ItemTracker.mark_seen: INSERT ... ON CONFLICT(id) DO UPDATE SET last_seen_at.
mark_seen(store, item, t) ==
    IF item.id \in DOMAIN store
    THEN [store EXCEPT ![item.id].last_seen_at = t]
    ELSE [i \in DOMAIN store \cup {item.id} |->
            IF i = item.id
            THEN [url |-> item.url, title |-> item.title, source |-> item.source,
                  first_seen_at |-> t, last_seen_at |-> t, sent_in_email |-> 0]
            ELSE store[i]]

RECURSIVE mark_seen_all(_, _, _)
mark_seen_all(store, its, t) ==
    IF its = <<>> THEN store
    ELSE mark_seen_all(mark_seen(store, Head(its), t), Tail(its), t)

RECURSIVE mark_sent(_, _)
mark_sent(store, item_ids) ==
    IF item_ids = <<>> THEN store
    ELSE mark_sent(IF Head(item_ids) \in DOMAIN store
                   THEN [store EXCEPT ![Head(item_ids)].sent_in_email = 1]
                   ELSE store,
                   Tail(item_ids))

\* A faulty variant of filter_new_items: the test is inverted.
RECURSIVE filter_seen_items(_, _)
filter_seen_items(store, its) ==
    IF its = <<>> THEN <<>>
    ELSE IF Head(its).id \in DOMAIN store
         THEN <<Head(its)>> \o filter_seen_items(store, Tail(its))
         ELSE filter_seen_items(store, Tail(its))

RECURSIVE filter_new_items(_, _)
filter_new_items(store, its) ==
    IF its = <<>> THEN <<>>
    ELSE IF ~is_seen(store, Head(its).id)
         THEN <<Head(its)>> \o filter_new_items(store, Tail(its))
         ELSE filter_new_items(store, Tail(its))

get_unsent_items(store) == {i \in DOMAIN store : store[i].sent_in_email = 0}

record_email_sent(history, item_count, recipient, t) ==
    Append(history, [sent_at |-> t, item_count |-> item_count,
                     recipient |-> recipient])

\* A faulty variant of cleanup_deleted: a row first seen exactly at the
\* cutoff is deleted too.
cleanup_deleted_inclusive(store, days, t) ==
    {i \in DOMAIN store : store[i].first_seen_at <= t - days}

\* The rows "DELETE FROM seen_items WHERE first_seen_at < cutoff" removes.
cleanup_deleted(store, days, t) ==
    {i \in DOMAIN store : store[i].first_seen_at < t - days}

cleanup_old_items(store, days, t) ==
    [i \in DOMAIN store \ cleanup_deleted(store, days, t) |-> store[i]]

get_stats(store, history) ==
    [total_items_tracked |-> Cardinality(DOMAIN store),
     items_sent_in_emails |->
        Cardinality({i \in DOMAIN store : store[i].sent_in_email = 1}),
     total_emails_sent |-> Len(history)]

EmptyStore == [i \in {} |-> None]

----------------------------------------------------------------------------
\* Configuration (config.py): the attributes the modelled code reads.

config ==
    [MAX_DISTANCE_MILES |-> MAX_DISTANCE_MILES,
     SEARCH_TERMS |-> [i \in 1..NumTerms |-> i],
     RECIPIENT_EMAILS |-> <<"aditi.b84@gmail.com">>,
     SENDER_EMAIL |-> "plumfinder@resend.dev",
     MAX_ITEMS_PER_EMAIL |-> MAX_ITEMS_PER_EMAIL]

----------------------------------------------------------------------------
\* Adapters (scrapers/*.py).

\* The scrapers dict of run_pipeline, in insertion order.
Scrapers == <<"craigslist", "offerup", "mercari", "ebay", "etsy", "poshmark">>

IdPrefix(source) ==
    CASE source = "craigslist" -> "cl_"
      [] source = "offerup" -> "offerup_"
      [] source = "mercari" -> "mercari_"
      [] source = "ebay" -> "ebay_"
      [] source = "etsy" -> "etsy_"
      [] source = "poshmark" -> "poshmark_"

\* The record an adapter's parse step builds from a listing.
ListingItem(source, listing) ==
    [id |-> IdPrefix(source) \o listing.native,
     title |-> listing.title,
     price |-> listing.price,
     url |-> listing.url,
     image_urls |-> listing.image_urls,
     location |-> listing.location,
     posted_date |-> listing.posted_date,
     source |-> source,
     distance_miles |-> None,
     color_score |-> 0,
     shippable |-> listing.shippable,
     score |-> None]

\* A faulty variant of AddUnseen: the id of an added item is not remembered.
RECURSIVE AddWithoutRemembering(_, _)
AddWithoutRemembering(st, its) ==
    IF its = <<>> THEN st
    ELSE AddWithoutRemembering(
             IF Head(its).id \notin st.seen_ids
             THEN [all_items |-> Append(st.all_items, Head(its)),
                   seen_ids |-> st.seen_ids]
             ELSE st,
             Tail(its))

\* A faulty variant of AddUnseen: a later item replaces the one of the same id.
RECURSIVE AddLastWins(_, _)
AddLastWins(st, its) ==
    IF its = <<>> THEN st
    ELSE AddLastWins(
             IF Head(its).id \notin st.seen_ids
             THEN [all_items |-> Append(st.all_items, Head(its)),
                   seen_ids |-> st.seen_ids \cup {Head(its).id}]
             ELSE [all_items |->
                      [i \in 1..Len(st.all_items) |->
                          IF st.all_items[i].id = Head(its).id
                          THEN Head(its) ELSE st.all_items[i]],
                   seen_ids |-> st.seen_ids],
             Tail(its))

\* The inner loop of search_all_terms over the items of one search.
RECURSIVE AddUnseen(_, _)
AddUnseen(st, its) ==
    IF its = <<>> THEN st
    ELSE AddUnseen(IF Head(its).id \notin st.seen_ids
                   THEN [all_items |-> Append(st.all_items, Head(its)),
                         seen_ids |-> st.seen_ids \cup {Head(its).id}]
                   ELSE st,
                   Tail(its))

\* The outer loop: results[i] is what search(SEARCH_TERMS[i]) returns.
RECURSIVE SearchTermsFrom(_, _, _)
SearchTermsFrom(st, results, i) ==
    IF i > Len(results) THEN st
    ELSE SearchTermsFrom(AddUnseen(st, results[i]), results, i + 1)

search_all_terms(results) ==
    SearchTermsFrom([all_items |-> <<>>, seen_ids |-> {}], results, 1).all_items

----------------------------------------------------------------------------
\* The listings the marketplaces hold while the pipeline runs.

PaloAlto == <<"P", "a", "l", "o", " ", "A", "l", "t", "o", ",", " ", "C", "A">>

Tracy == <<"T", "r", "a", "c", "y">>

Listing(native, title, price, location, shippable) ==
    [native |-> native, title |-> title, price |-> price, url |-> native,
     image_urls |-> <<"thumb">>, location |-> location,
     posted_date |-> Some(0), shippable |-> shippable]

MarketListings(source) ==
    CASE source = "craigslist" ->
            {Listing("1", "plum vase", Some(10), Some(PaloAlto), FALSE),
             Listing("2", "purple throw", Some(490), Some(Tracy), TRUE)}
      [] source = "ebay" ->
            {Listing("1", "violet bowl", Some(490), None, TRUE)}
      [] OTHER -> {}

\* What one search(term) of the adapter may return, and one run of all terms.
SearchReturns(source) ==
    SeqsUpTo({ListingItem(source, l) : l \in MarketListings(source)}, MaxPerSearch)

TermResults(source) == [1..NumTerms -> SearchReturns(source)]

\* Scores analyze_item may give: 0.24 (an image's histogram bucket alone),
\* 0.35 (a weak keyword alone), 0.63 (a strong keyword alone).
ColorScores == {240, 350, 630}

\* What get_listing_details finds on the listing page: nothing it uses, or a
\* gallery, a post date and a body that mentions shipping.
DetailPages == {"plain", "full"}

get_listing_details(item, page) ==
    IF page = "full"
    THEN [item EXCEPT !.image_urls = <<"full1", "full2">>,
                      !.posted_date = Some(48),
                      !.shippable = TRUE]
    ELSE item

----------------------------------------------------------------------------
\* run_pipeline (main.py), one action per step.

\* No executor runs.
RetryIdle ==
    /\ retry_fn = "none"
    /\ max_retries = 0
    /\ base_delay = 0
    /\ max_delay = 0
    /\ attempt = 0
    /\ calls = <<>>
    /\ sleeps = <<>>
    /\ last_exception = <<>>
    /\ retry_pc = "none"
    /\ retry_result = <<>>

\* ResponseCache.__init__: an empty cache; no call was made.
CacheEmpty ==
    /\ cache = [k \in {} |-> <<>>]
    /\ cache_now = 0
    /\ cache_call = [op |-> "none", key |-> "", result |-> <<>>]
    /\ latest_set = [k \in {} |-> <<>>]

NoRobotsCall ==
    [caller |-> "none", domain |-> "", path |-> "", fetched |-> FALSE,
     result |-> FALSE]

\* RobotsChecker.__init__: nothing was fetched.
RobotsEmpty ==
    /\ parsers = [d \in {} |-> <<>>]
    /\ fetch_times = [d \in {} |-> 0]
    /\ robots_now = 0
    /\ robots_log = [d \in {} |-> <<>>]
    /\ robots_call = NoRobotsCall

\* No adapter instance exists.
SearchIdle ==
    /\ sc = "none"
    /\ sc_pc = "none"
    /\ sc_step = "none"
    /\ sc_attempt = 0
    /\ sc_calls = 0
    /\ sc_query = ""
    /\ sc_items = "empty"
    /\ use_api = FALSE
    /\ access_token = FALSE
    /\ cookies_set = FALSE
    /\ net = <<>>
    /\ pending_fetch = FALSE
    /\ api_at_start = FALSE

\* The utilities are not in use.
\* No item has been handed to analyze_item or to the ranking.
PureIdle ==
    /\ an_item = [title |-> <<>>, image_urls |-> <<>>]
    /\ an_score = None
    /\ rank_input = <<>>
    /\ rank_output = <<>>

UtilIdle ==
    /\ RetryIdle
    /\ CacheEmpty
    /\ RobotsEmpty
    /\ SearchIdle
    /\ PureIdle

adapterVars == <<adapter, adapter_pc, term_i, acc_items, seen_ids,
                 first_parsed, last_parsed>>

callVars == <<filter_input, filter_result, store_before, last_op, deleted>>

Components == Range(Scrapers) \cup {"color_analyzer", "tracker"}

TotalLen(results) == Len(Flatten(results))

\* Lines 123-145: the components are built, the scrape loop begins.
StartRun ==
    /\ pc = "idle"
    /\ pc' = "scrape"
    /\ si' = 1
    /\ exc' = "none"
    /\ closed' = {}
    /\ UNCHANGED <<seen_items, email_history, now, items, all_items, new_items,
                   plum_items, top_items, success, log, last_error,
                   parsed_count, delivered, undelivered>>
    /\ UNCHANGED adapterVars
    /\ UNCHANGED utilVars
    /\ UNCHANGED callVars

\* Lines 147-150: search_all_terms of the next scraper returns a list.
ScrapeReturns ==
    /\ pc = "scrape"
    /\ si <= Len(Scrapers)
    /\ \E results \in TermResults(Scrapers[si]) :
          /\ items' = search_all_terms(results)
          /\ all_items' = all_items \o items'
          /\ parsed_count' = TotalLen(results)
    /\ si' = si + 1
    /\ log' = Append(log, "scrape")
    /\ UNCHANGED <<seen_items, email_history, now, pc, new_items, plum_items,
                   top_items, success, exc, closed, last_error, delivered,
                   undelivered>>
    /\ UNCHANGED adapterVars
    /\ UNCHANGED utilVars
    /\ UNCHANGED callVars

\* A faulty variant of ScrapeRaises: the exception is not caught.
ScrapeRaisesAborts ==
    /\ pc = "scrape"
    /\ si <= Len(Scrapers)
    /\ last_error' = Some(Scrapers[si])
    /\ parsed_count' = 0
    /\ pc' = "finally"
    /\ exc' = "Exception"
    /\ log' = Append(log, "scrape")
    /\ UNCHANGED <<seen_items, email_history, now, si, items, all_items,
                   new_items, plum_items, top_items, success, closed,
                   delivered, undelivered>>
    /\ UNCHANGED adapterVars
    /\ UNCHANGED utilVars
    /\ UNCHANGED callVars

\* Lines 147-152: search_all_terms of the next scraper raises.
ScrapeRaises ==
    /\ pc = "scrape"
    /\ si <= Len(Scrapers)
    /\ last_error' = Some(Scrapers[si])
    /\ parsed_count' = 0
    /\ si' = si + 1
    /\ log' = Append(log, "scrape")
    /\ UNCHANGED <<seen_items, email_history, now, pc, items, all_items,
                   new_items, plum_items, top_items, success, exc, closed,
                   delivered, undelivered>>
    /\ UNCHANGED adapterVars
    /\ UNCHANGED utilVars
    /\ UNCHANGED callVars

\* A faulty variant of FilterSeen: the scraped items go on unfiltered.
FilterSeenKeepsAll ==
    /\ pc = "scrape"
    /\ si > Len(Scrapers)
    /\ IF all_items = <<>>
       THEN /\ pc' = "finally"
            /\ UNCHANGED <<new_items, log>>
       ELSE /\ new_items' = all_items
            /\ pc' = "analyze"
            /\ log' = Append(log, "filter")
    /\ items' = <<>>
    /\ last_error' = None
    /\ parsed_count' = 0
    /\ UNCHANGED <<seen_items, email_history, now, si, all_items, plum_items,
                   top_items, success, exc, closed, delivered, undelivered>>
    /\ UNCHANGED adapterVars
    /\ UNCHANGED utilVars
    /\ UNCHANGED callVars

\* Lines 154-167: the loop is over; exit on no items, filter, exit on no new.
FilterSeen ==
    /\ pc = "scrape"
    /\ si > Len(Scrapers)
    /\ IF all_items = <<>>
       THEN /\ pc' = "finally"
            /\ UNCHANGED <<new_items, log>>
       ELSE /\ new_items' = filter_new_items(seen_items, all_items)
            /\ pc' = IF new_items' = <<>> THEN "finally" ELSE "analyze"
            /\ log' = Append(log, "filter")
    /\ items' = <<>>
    /\ last_error' = None
    /\ parsed_count' = 0
    /\ UNCHANGED <<seen_items, email_history, now, si, all_items, plum_items,
                   top_items, success, exc, closed, delivered, undelivered>>
    /\ UNCHANGED adapterVars
    /\ UNCHANGED utilVars
    /\ UNCHANGED callVars

\* Lines 169-178: colour score and distance of every new item.
AnalyzeColors ==
    /\ pc = "analyze"
    /\ \E cs \in [1..Len(new_items) -> ColorScores] :
          new_items' = [i \in 1..Len(new_items) |->
                          [new_items[i] EXCEPT
                              !.color_score = cs[i],
                              !.distance_miles =
                                  Some(calculate_distance(new_items[i].location))]]
    /\ pc' = "gate"
    /\ log' = Append(log, "analyze")
    /\ UNCHANGED <<seen_items, email_history, now, si, items, all_items,
                   plum_items, top_items, success, exc, closed, last_error,
                   parsed_count, delivered, undelivered>>
    /\ UNCHANGED adapterVars
    /\ UNCHANGED utilVars
    /\ UNCHANGED callVars

PassesGate(item) == item.color_score >= COLOR_THRESHOLD

\* A faulty variant of GateColors: with nothing at the gate the run goes on
\* to the retention cleanup.
GateColorsThenCleanup ==
    /\ pc = "gate"
    /\ plum_items' = SelectSeq(new_items, PassesGate)
    /\ pc' = IF plum_items' = <<>> THEN "cleanup" ELSE "rank"
    /\ log' = Append(log, "gate")
    /\ UNCHANGED <<seen_items, email_history, now, si, items, all_items,
                   new_items, top_items, success, exc, closed, last_error,
                   parsed_count, delivered, undelivered>>
    /\ UNCHANGED adapterVars
    /\ UNCHANGED utilVars
    /\ UNCHANGED callVars

\* Lines 180-188: the colour gate; exit when nothing passes.
GateColors ==
    /\ pc = "gate"
    /\ plum_items' = SelectSeq(new_items, PassesGate)
    /\ pc' = IF plum_items' = <<>> THEN "finally" ELSE "rank"
    /\ log' = Append(log, "gate")
    /\ UNCHANGED <<seen_items, email_history, now, si, items, all_items,
                   new_items, top_items, success, exc, closed, last_error,
                   parsed_count, delivered, undelivered>>
    /\ UNCHANGED adapterVars
    /\ UNCHANGED utilVars
    /\ UNCHANGED callVars

WithScore(its) ==
    [i \in 1..Len(its) |-> [its[i] EXCEPT !.score = Some(calculate_score(its[i]))]]

TopN(sorted) == SubSeq(sorted, 1, Min(Len(sorted), config.MAX_ITEMS_PER_EMAIL))

\* Lines 190-200: score, sort descending, take the first MAX_ITEMS_PER_EMAIL.
RankSelect ==
    /\ pc = "rank"
    /\ plum_items' = SortByScoreDesc(<<>>, WithScore(plum_items))
    /\ top_items' = TopN(plum_items')
    /\ pc' = "enrich"
    /\ log' = Append(log, "rank")
    /\ UNCHANGED <<seen_items, email_history, now, si, items, all_items,
                   new_items, success, exc, closed, last_error, parsed_count,
                   delivered, undelivered>>
    /\ UNCHANGED adapterVars
    /\ UNCHANGED utilVars
    /\ UNCHANGED callVars

\* Lines 202-206: listing details of the selected Craigslist items.
EnrichDetails ==
    /\ pc = "enrich"
    /\ \E pages \in [1..Len(top_items) -> DetailPages] :
          top_items' = [i \in 1..Len(top_items) |->
                          IF top_items[i].source = "craigslist"
                          THEN get_listing_details(top_items[i], pages[i])
                          ELSE top_items[i]]
    /\ pc' = "persist"
    /\ log' = Append(log, "enrich")
    /\ UNCHANGED <<seen_items, email_history, now, si, items, all_items,
                   new_items, plum_items, success, exc, closed, last_error,
                   parsed_count, delivered, undelivered>>
    /\ UNCHANGED adapterVars
    /\ UNCHANGED utilVars
    /\ UNCHANGED callVars

\* A faulty variant of PersistSeen: the items are not marked seen.
PersistSkipped ==
    /\ pc = "persist"
    /\ pc' = "send"
    /\ UNCHANGED <<seen_items, email_history, now, si, items, all_items,
                   new_items, plum_items, top_items, success, exc, closed, log,
                   last_error, parsed_count, delivered, undelivered>>
    /\ UNCHANGED adapterVars
    /\ UNCHANGED utilVars
    /\ UNCHANGED callVars

\* A faulty variant of PersistSeen: every new item is marked seen.
PersistSeenAllNew ==
    /\ pc = "persist"
    /\ seen_items' = mark_seen_all(seen_items, new_items, now)
    /\ pc' = "send"
    /\ log' = Append(log, "mark_seen")
    /\ UNCHANGED <<email_history, now, si, items, all_items, new_items,
                   plum_items, top_items, success, exc, closed, last_error,
                   parsed_count, delivered, undelivered>>
    /\ UNCHANGED adapterVars
    /\ UNCHANGED utilVars
    /\ UNCHANGED callVars

\* Lines 208-211: every selected item is marked seen.
PersistSeen ==
    /\ pc = "persist"
    /\ seen_items' = mark_seen_all(seen_items, top_items, now)
    /\ pc' = "send"
    /\ log' = Append(log, "mark_seen")
    /\ UNCHANGED <<email_history, now, si, items, all_items, new_items,
                   plum_items, top_items, success, exc, closed, last_error,
                   parsed_count, delivered, undelivered>>
    /\ UNCHANGED adapterVars
    /\ UNCHANGED utilVars
    /\ UNCHANGED callVars

\* Line 213: send_digest(top_items) answers True or False (sender disabled,
\* or the mail service raised).
SendDigest ==
    /\ pc = "send"
    /\ \E ok \in BOOLEAN :
          /\ success' = ok
          /\ delivered' = IF ok THEN delivered \cup Ids(top_items) ELSE delivered
    /\ pc' = "sent"
    /\ log' = Append(log, "send_digest")
    /\ UNCHANGED <<seen_items, email_history, now, si, items, all_items,
                   new_items, plum_items, top_items, exc, closed, last_error,
                   parsed_count, undelivered>>
    /\ UNCHANGED adapterVars
    /\ UNCHANGED utilVars
    /\ UNCHANGED callVars

IdList(its) == [i \in 1..Len(its) |-> its[i].id]

\* Lines 215-218: the send succeeded.  The second statement reads
\* config.RECIPIENT_EMAIL before record_email_sent is entered; an attribute
\* config does not have raises AttributeError, which no handler catches.
SendSucceeded ==
    /\ pc = "sent"
    /\ success
    /\ seen_items' = mark_sent(seen_items, IdList(top_items))
    /\ IF "RECIPIENT_EMAIL" \in DOMAIN config
       THEN /\ email_history' =
                  record_email_sent(email_history, Len(top_items),
                                    config["RECIPIENT_EMAIL"], now)
            /\ pc' = "cleanup"
            /\ exc' = exc
       ELSE /\ email_history' = email_history
            /\ pc' = "finally"
            /\ exc' = "AttributeError"
    /\ log' = Append(log, "mark_sent")
    /\ UNCHANGED <<now, si, items, all_items, new_items, plum_items, top_items,
                   success, closed, last_error, parsed_count, delivered,
                   undelivered>>
    /\ UNCHANGED adapterVars
    /\ UNCHANGED utilVars
    /\ UNCHANGED callVars

\* A faulty variant of SendFailed: mark_sent is called whatever send_digest answered.
SendFailedMarksSent ==
    /\ pc = "sent"
    /\ ~success
    /\ seen_items' = mark_sent(seen_items, IdList(top_items))
    /\ pc' = "cleanup"
    /\ undelivered' = undelivered \cup Ids(top_items)
    /\ log' = Append(log, "mark_sent")
    /\ UNCHANGED <<email_history, now, si, items, all_items, new_items,
                   plum_items, top_items, success, exc, closed, last_error,
                   parsed_count, delivered>>
    /\ UNCHANGED adapterVars
    /\ UNCHANGED utilVars
    /\ UNCHANGED callVars

\* Lines 219-220: the send failed.
SendFailed ==
    /\ pc = "sent"
    /\ ~success
    /\ pc' = "cleanup"
    /\ undelivered' = undelivered \cup Ids(top_items)
    /\ UNCHANGED <<seen_items, email_history, now, si, items, all_items,
                   new_items, plum_items, top_items, success, exc, closed,
                   log, last_error, parsed_count, delivered>>
    /\ UNCHANGED adapterVars
    /\ UNCHANGED utilVars
    /\ UNCHANGED callVars

\* Lines 222-228: retention cleanup, then the statistics are printed.
CleanupAndStats ==
    /\ pc = "cleanup"
    /\ seen_items' = cleanup_old_items(seen_items, RETENTION_DAYS, now)
    /\ undelivered' = undelivered \cap DOMAIN seen_items'
    /\ pc' = "finally"
    /\ log' = log \o <<"cleanup", "get_stats">>
    /\ UNCHANGED <<email_history, now, si, items, all_items, new_items,
                   plum_items, top_items, success, exc, closed, last_error,
                   parsed_count, delivered>>
    /\ UNCHANGED adapterVars
    /\ UNCHANGED utilVars
    /\ UNCHANGED callVars

\* Lines 230-238: the finally block closes every component; the run is over
\* (an exception, if any, goes on to the caller).
Finally ==
    /\ pc = "finally"
    /\ closed' = Components
    /\ pc' = "idle"
    /\ si' = 0
    /\ all_items' = <<>>
    /\ new_items' = <<>>
    /\ plum_items' = <<>>
    /\ top_items' = <<>>
    /\ success' = FALSE
    /\ log' = <<>>
    /\ UNCHANGED <<seen_items, email_history, now, items, exc, last_error,
                   parsed_count, delivered, undelivered>>
    /\ UNCHANGED adapterVars
    /\ UNCHANGED utilVars
    /\ UNCHANGED callVars

\* reset_database (main.py, also run before the pipeline when RESET_DB=true).
ResetDatabase ==
    /\ pc = "idle"
    /\ seen_items # EmptyStore \/ email_history # <<>>
    /\ seen_items' = EmptyStore
    /\ email_history' = <<>>
    /\ undelivered' = {}
    /\ UNCHANGED <<now, pc, si, items, all_items, new_items, plum_items,
                   top_items, success, exc, closed, log, last_error,
                   parsed_count, delivered>>
    /\ UNCHANGED adapterVars
    /\ UNCHANGED utilVars
    /\ UNCHANGED callVars

\* Time passes between two runs.
Tick ==
    /\ pc = "idle"
    /\ now + TickDays <= MaxNow
    /\ now' = now + TickDays
    /\ UNCHANGED <<seen_items, email_history, pc, si, items, all_items,
                   new_items, plum_items, top_items, success, exc, closed, log,
                   last_error, parsed_count, delivered, undelivered>>
    /\ UNCHANGED adapterVars
    /\ UNCHANGED utilVars
    /\ UNCHANGED callVars

Init ==
    /\ seen_items = EmptyStore
    /\ email_history = <<>>
    /\ now = 0
    /\ pc = "idle"
    /\ si = 0
    /\ items = <<>>
    /\ all_items = <<>>
    /\ new_items = <<>>
    /\ plum_items = <<>>
    /\ top_items = <<>>
    /\ success = FALSE
    /\ exc = "none"
    /\ closed = {}
    /\ adapter = "none"
    /\ adapter_pc = "none"
    /\ term_i = 0
    /\ acc_items = <<>>
    /\ seen_ids = {}
    /\ filter_input = <<>>
    /\ filter_result = <<>>
    /\ store_before = EmptyStore
    /\ last_op = "none"
    /\ deleted = 0
    /\ log = <<>>
    /\ last_error = None
    /\ parsed_count = 0
    /\ first_parsed = EmptyStore
    /\ last_parsed = EmptyStore
    /\ delivered = {}
    /\ undelivered = {}
    /\ UtilIdle

Next ==
    \/ StartRun
    \/ ScrapeReturns
    \/ ScrapeRaises
    \/ FilterSeen
    \/ AnalyzeColors
    \/ GateColors
    \/ RankSelect
    \/ EnrichDetails
    \/ PersistSeen
    \/ SendDigest
    \/ SendSucceeded
    \/ SendFailed
    \/ CleanupAndStats
    \/ Finally
    \/ ResetDatabase
    \/ Tick

Spec == Init /\ [][Next]_vars

----------------------------------------------------------------------------
\* One adapter's search_all_terms, one search term per step.

\* Two parses of listing 1 that differ in every mutable field, and listing 2.
VariantListings ==
    {[native |-> "1", title |-> "plum vase", price |-> Some(10), url |-> "1",
      image_urls |-> <<"thumb">>, location |-> Some(PaloAlto),
      posted_date |-> Some(0), shippable |-> FALSE],
     [native |-> "1", title |-> "plum vase", price |-> Some(20), url |-> "1",
      image_urls |-> <<"full1", "full2">>, location |-> None,
      posted_date |-> Some(0), shippable |-> TRUE],
     [native |-> "2", title |-> "purple throw", price |-> None, url |-> "2",
      image_urls |-> <<>>, location |-> Some(Tracy),
      posted_date |-> Some(0), shippable |-> FALSE]}

AdapterSearchReturns(source) ==
    SeqsUpTo({ListingItem(source, l) : l \in VariantListings}, MaxPerSearch)

\* id -> the first item of its with that id, for the ids f does not have yet.
RECURSIVE NoteFirst(_, _)
NoteFirst(f, its) ==
    IF its = <<>> THEN f
    ELSE NoteFirst(IF Head(its).id \in DOMAIN f THEN f
                   ELSE [i \in DOMAIN f \cup {Head(its).id} |->
                           IF i = Head(its).id THEN Head(its) ELSE f[i]],
                   Tail(its))

\* id -> the last item of its with that id.
RECURSIVE NoteLast(_, _)
NoteLast(f, its) ==
    IF its = <<>> THEN f
    ELSE NoteLast([i \in DOMAIN f \cup {Head(its).id} |->
                     IF i = Head(its).id THEN Head(its) ELSE f[i]],
                  Tail(its))

pipelineVars == <<seen_items, email_history, now, pc, si, items, all_items,
                  new_items, plum_items, top_items, success, exc, closed, log,
                  last_error, delivered, undelivered>>

\* One iteration of "for term in config.SEARCH_TERMS".
AdapterSearchTerm ==
    /\ adapter_pc = "loop"
    /\ term_i <= Len(config.SEARCH_TERMS)
    /\ \E result \in AdapterSearchReturns(adapter) :
          LET st == AddUnseen([all_items |-> acc_items, seen_ids |-> seen_ids],
                              result)
          IN  /\ acc_items' = st.all_items
              /\ seen_ids' = st.seen_ids
              /\ first_parsed' = NoteFirst(first_parsed, result)
              /\ last_parsed' = NoteLast(last_parsed, result)
              /\ parsed_count' = parsed_count + Len(result)
    /\ term_i' = term_i + 1
    /\ UNCHANGED <<adapter, adapter_pc>>
    /\ UNCHANGED pipelineVars
    /\ UNCHANGED utilVars
    /\ UNCHANGED callVars

\* "return all_items".
AdapterReturn ==
    /\ adapter_pc = "loop"
    /\ term_i > Len(config.SEARCH_TERMS)
    /\ adapter_pc' = "returned"
    /\ UNCHANGED <<adapter, term_i, acc_items, seen_ids, first_parsed,
                   last_parsed, parsed_count>>
    /\ UNCHANGED pipelineVars
    /\ UNCHANGED utilVars
    /\ UNCHANGED callVars

InitAdapter ==
    /\ seen_items = EmptyStore
    /\ email_history = <<>>
    /\ now = 0
    /\ pc = "idle"
    /\ si = 0
    /\ items = <<>>
    /\ all_items = <<>>
    /\ new_items = <<>>
    /\ plum_items = <<>>
    /\ top_items = <<>>
    /\ success = FALSE
    /\ exc = "none"
    /\ closed = {}
    /\ adapter \in Range(Scrapers)
    /\ adapter_pc = "loop"
    /\ term_i = 1
    /\ acc_items = <<>>
    /\ seen_ids = {}
    /\ filter_input = <<>>
    /\ filter_result = <<>>
    /\ store_before = EmptyStore
    /\ last_op = "none"
    /\ deleted = 0
    /\ log = <<>>
    /\ last_error = None
    /\ parsed_count = 0
    /\ first_parsed = EmptyStore
    /\ last_parsed = EmptyStore
    /\ delivered = {}
    /\ undelivered = {}
    /\ UtilIdle

NextAdapter ==
    \/ AdapterSearchTerm
    \/ AdapterReturn

SpecAdapter == InitAdapter /\ [][NextAdapter]_vars

----------------------------------------------------------------------------
\* The tracker called directly, one operation per step.

TrackerItems ==
    {ListingItem("craigslist", Listing("123", "plum vase", Some(10), None, FALSE)),
     ListingItem("craigslist", Listing("123", "plum vase - reduced", Some(5), None, FALSE)),
     ListingItem("craigslist", Listing("456", "purple throw", None, None, FALSE))}

TrackerIds == {it.id : it \in TrackerItems}

runVars == <<pc, si, items, all_items, new_items, plum_items, top_items,
             success, exc, closed, log, last_error, parsed_count, delivered,
             undelivered>>

NoCall ==
    /\ filter_input' = <<>>
    /\ filter_result' = <<>>
    /\ store_before' = EmptyStore

CallMarkSeen ==
    /\ \E item \in TrackerItems : seen_items' = mark_seen(seen_items, item, now)
    /\ last_op' = "mark_seen"
    /\ UNCHANGED deleted
    /\ NoCall
    /\ UNCHANGED <<email_history, now>>
    /\ UNCHANGED runVars
    /\ UNCHANGED adapterVars
    /\ UNCHANGED utilVars

CallMarkSent ==
    /\ \E ids \in SeqsUpTo(TrackerIds, MaxFilterLen) :
          /\ ids # <<>>
          /\ seen_items' = mark_sent(seen_items, ids)
    /\ last_op' = "mark_sent"
    /\ UNCHANGED deleted
    /\ NoCall
    /\ UNCHANGED <<email_history, now>>
    /\ UNCHANGED runVars
    /\ UNCHANGED adapterVars
    /\ UNCHANGED utilVars

CallFilterNewItems ==
    /\ \E its \in SeqsUpTo(TrackerItems, MaxFilterLen) :
          /\ filter_input' = its
          /\ filter_result' = filter_new_items(seen_items, its)
    /\ store_before' = seen_items
    /\ last_op' = "filter_new_items"
    /\ UNCHANGED deleted
    /\ UNCHANGED <<seen_items, email_history, now>>
    /\ UNCHANGED runVars
    /\ UNCHANGED adapterVars
    /\ UNCHANGED utilVars

CallRecordEmailSent ==
    /\ Len(email_history) < MaxEmails
    /\ email_history' =
          record_email_sent(email_history, 2, config.RECIPIENT_EMAILS[1], now)
    /\ last_op' = "record_email_sent"
    /\ UNCHANGED deleted
    /\ NoCall
    /\ UNCHANGED <<seen_items, now>>
    /\ UNCHANGED runVars
    /\ UNCHANGED adapterVars
    /\ UNCHANGED utilVars

CallCleanupOldItems ==
    /\ seen_items' = cleanup_old_items(seen_items, RETENTION_DAYS, now)
    /\ last_op' = "cleanup_old_items"
    /\ deleted' = Cardinality(cleanup_deleted(seen_items, RETENTION_DAYS, now))
    /\ NoCall
    /\ UNCHANGED <<email_history, now>>
    /\ UNCHANGED runVars
    /\ UNCHANGED adapterVars
    /\ UNCHANGED utilVars

TrackerTick ==
    /\ now + TrackerTickDays <= TrackerMaxNow
    /\ now' = now + TrackerTickDays
    /\ UNCHANGED <<seen_items, email_history>>
    /\ UNCHANGED callVars
    /\ UNCHANGED runVars
    /\ UNCHANGED adapterVars
    /\ UNCHANGED utilVars

NextTracker ==
    \/ CallMarkSeen
    \/ CallMarkSent
    \/ CallFilterNewItems
    \/ CallRecordEmailSent
    \/ CallCleanupOldItems
    \/ TrackerTick

SpecTracker == Init /\ [][NextTracker]_vars

----------------------------------------------------------------------------
\* Properties.

PosIn(s, id) == CHOOSE i \in 1..Len(s) : s[i].id = id

Unseen(store, its) == {i \in 1..Len(its) : its[i].id \notin DOMAIN store}

\* C1: filter_new_items returns exactly the items of its argument whose id has
\* no row in seen_items, in their original relative order, and leaves the store
\* as it was; on an empty store it returns the whole list.
C1_FilterNewItems ==
    last_op = "filter_new_items" =>
        /\ seen_items = store_before
        /\ Len(filter_result) = Cardinality(Unseen(store_before, filter_input))
        /\ \E f \in [1..Len(filter_result) -> 1..Len(filter_input)] :
              /\ \A k \in 1..Len(filter_result) :
                    /\ f[k] \in Unseen(store_before, filter_input)
                    /\ filter_result[k] = filter_input[f[k]]
              /\ \A j, k \in 1..Len(filter_result) : j < k => f[j] < f[k]
        /\ (store_before = EmptyStore => filter_result = filter_input)

\* C1 witness: a list with a seen item before an unseen one was filtered.
C1_Witness ==
    /\ last_op = "filter_new_items"
    /\ Len(filter_input) = 2
    /\ filter_input[1].id = "cl_123"
    /\ filter_input[2].id = "cl_456"
    /\ DOMAIN store_before = {"cl_123"}
    /\ Len(filter_result) = 1

FlagSet(id) ==
    /\ id \in DOMAIN seen_items'
    /\ seen_items'[id].sent_in_email = 1
    /\ id \in DOMAIN seen_items => seen_items[id].sent_in_email = 0

\* C2: a row has sent_in_email = 1 only if send_digest returned True before
\* for a digest with that id, and only the step after a successful send of a
\* digest with that id sets the flag.
C2_SentOnlyAfterSuccess ==
    /\ [](\A id \in DOMAIN seen_items :
             seen_items[id].sent_in_email = 1 => id \in delivered)
    /\ [][\A id \in DOMAIN seen_items' :
             FlagSet(id) => pc = "sent" /\ success /\ id \in Ids(top_items)]_vars

\* C2 witness: a flag is set, and another row of a failed send is not.
C2_Witness ==
    /\ \E id \in DOMAIN seen_items : seen_items[id].sent_in_email = 1
    /\ \E id \in DOMAIN seen_items : seen_items[id].sent_in_email = 0

InLaterStep == pc \in {"analyze", "gate", "rank", "enrich", "persist", "send", "sent"}

\* C3: an item of a digest whose send failed keeps a row with sent_in_email = 0
\* and, while that row is retained, no later run has it among its new items or
\* in its digest.
C3_FailedSendHidesItems ==
    \A id \in undelivered :
        /\ id \in DOMAIN seen_items
        /\ seen_items[id].sent_in_email = 0
        /\ InLaterStep => id \notin Ids(new_items) /\ id \notin Ids(top_items)

\* C3 witness: a later run scraped such an item again and goes on without it.
C3_Witness ==
    /\ pc = "analyze"
    /\ \E id \in undelivered : id \in Ids(all_items)

StepOrder ==
    <<"scrape", "filter", "analyze", "gate", "rank", "enrich", "mark_seen",
      "send_digest", "mark_sent", "cleanup", "get_stats">>

StepPos(step) == CHOOSE p \in 1..Len(StepOrder) : StepOrder[p] = step

C5_AlwaysReachesCleanup ==
    (pc = "finally" /\ top_items # <<>>) =>
        /\ "cleanup" \in Range(log)
        /\ "get_stats" \in Range(log)
        /\ exc = "none"

\* C6: the step after a successful send of n items appends exactly one row
\* with item_count = n to email_history; the step after a failed send appends
\* none.
C6_OneHistoryRowPerSend ==
    [][/\ (pc = "sent" /\ success) =>
             /\ Len(email_history') = Len(email_history) + 1
             /\ email_history'[Len(email_history')].item_count = Len(top_items)
       /\ (pc = "sent" /\ ~success) => email_history' = email_history]_vars

GatedNew == {i \in 1..Len(new_items) : new_items[i].color_score >= 300}

Selected(i) == new_items[i].id \in Ids(top_items)

\* C7: top_items is the first min(n, MAX_ITEMS_PER_EMAIL) items of the new
\* items at or above the gate in descending order of calculate_score, items of
\* equal score in discovery order.
C7_TopItems ==
    top_items # <<>> =>
        /\ Len(top_items) = Min(Cardinality(GatedNew), MAX_ITEMS_PER_EMAIL)
        /\ NoDupIds(top_items)
        /\ \A k \in 1..Len(top_items) : \E i \in GatedNew :
              /\ new_items[i].id = top_items[k].id
              /\ Val(top_items[k].score) = calculate_score(new_items[i])
        /\ \A j, k \in 1..Len(top_items) : j < k =>
              \/ Val(top_items[j].score) > Val(top_items[k].score)
              \/ /\ Val(top_items[j].score) = Val(top_items[k].score)
                 /\ PosIn(new_items, top_items[j].id) < PosIn(new_items, top_items[k].id)
        /\ \A i \in GatedNew : ~Selected(i) =>
              \A k \in 1..Len(top_items) :
                  \/ calculate_score(new_items[i]) < Val(top_items[k].score)
                  \/ /\ calculate_score(new_items[i]) = Val(top_items[k].score)
                     /\ PosIn(new_items, top_items[k].id) < i

\* C7 witness: more items pass the gate than fit, the last place is a tie that
\* discovery order decides, and the first place goes to the lower colour score.
C7_Witness ==
    /\ pc = "enrich"
    /\ Cardinality(GatedNew) > MAX_ITEMS_PER_EMAIL
    /\ \E i \in GatedNew :
          /\ ~Selected(i)
          /\ calculate_score(new_items[i]) = Val(top_items[Len(top_items)].score)
    /\ Val(top_items[1].score) > Val(top_items[2].score)
    /\ top_items[1].color_score < top_items[2].color_score

\* C8: no list returned by search_all_terms holds an id twice, and neither do
\* all_items, the new items and the digest.
C8_NoDuplicateIds ==
    /\ NoDupIds(items)
    /\ NoDupIds(all_items)
    /\ NoDupIds(new_items)
    /\ NoDupIds(top_items)

\* C8 witness: the searches of an adapter parsed a listing more than once, and
\* two adapters returned listings with the same native id.
C8_Witness ==
    /\ pc = "scrape"
    /\ parsed_count > Len(items)
    /\ Len(items) > 0
    /\ {"cl_1", "ebay_1"} \subseteq Ids(all_items)

Occurrences(s, id) == {i \in 1..Len(s) : s[i].id = id}

SameMutableFields(a, b) ==
    /\ a.price = b.price
    /\ a.image_urls = b.image_urls
    /\ a.location = b.location
    /\ a.shippable = b.shippable

\* C9 as claimed: the one record of an id carries the fields of the occurrence
\* parsed last.
C9_LastParsedWins ==
    \A id \in DOMAIN last_parsed :
        /\ Cardinality(Occurrences(acc_items, id)) = 1
        /\ SameMutableFields(acc_items[PosIn(acc_items, id)], last_parsed[id])

\* C9 as amended: the one record of an id carries the fields of the occurrence
\* parsed first.
C9_FirstParsedWins ==
    \A id \in DOMAIN first_parsed :
        /\ Cardinality(Occurrences(acc_items, id)) = 1
        /\ SameMutableFields(acc_items[PosIn(acc_items, id)], first_parsed[id])

\* C9 witness: a listing was parsed twice with different fields.
C9_Witness ==
    /\ adapter_pc = "returned"
    /\ \E id \in DOMAIN first_parsed :
          ~SameMutableFields(first_parsed[id], last_parsed[id])

RaiseStep == last_error' # None /\ last_error' # last_error

\* C10: when search_all_terms of an adapter raises, the items collected so far
\* are kept, the loop goes on to the next adapter and calls every one, no
\* exception escapes, and the run goes on with the collected items.
C10_AdapterFailureIsolated ==
    /\ [](pc = "scrape" => Len(log) = si - 1 /\ si <= Len(Scrapers) + 1)
    /\ [][RaiseStep =>
             /\ all_items' = all_items
             /\ pc' = "scrape"
             /\ si' = si + 1
             /\ exc' = "none"]_vars
    /\ [][(pc = "scrape" /\ si > Len(Scrapers) /\ last_error # None
             /\ all_items # <<>>) =>
             /\ "filter" \in Range(log')
             /\ exc' = "none"
             /\ Ids(new_items') = Ids(all_items) \ DOMAIN seen_items]_vars

\* C10 witness: an adapter between two that returned items raised.
C10_Witness ==
    /\ pc = "scrape"
    /\ si > Len(Scrapers)
    /\ last_error = Some("mercari")
    /\ {"cl_1", "ebay_1"} \subseteq Ids(all_items)

----------------------------------------------------------------------------
\* The retry executors (utils.py): retry_on_failure and the wrapper that
\* with_exponential_backoff builds, one loop iteration per step.  Delays are in
\* whole seconds.  An exception is told from the others by the number of the
\* call that raised it.

MaxRetries == 3        \* largest max_retries handed to an executor

exponential_base == 2  \* the default of with_exponential_backoff

retryable_status_codes == {429, 500, 502, 503, 504}

StatusCodes == {200, 404} \cup retryable_status_codes

BaseDelays == {1, 2}

MaxDelays == {3, 30}

RECURSIVE Pow(_, _)
Pow(b, n) == IF n = 0 THEN 1 ELSE b * Pow(b, n - 1)

Raised(n) == [kind |-> "raise", code |-> n]

Returned(kind, code) == [kind |-> kind, code |-> code]

\* What call number n of the operation can do: raise, return a response with
\* a status code, or return something that is not a response.
Outcomes(n) ==
    {Raised(n), Returned("value", 0)}
        \cup {Returned("response", c) : c \in StatusCodes}

\* A faulty variant of Attempts: the loop is one iteration short.
AttemptsShort(m) == m

\* "range(max_retries + 1)": the number of iterations of the loop.
Attempts(m) == m + 1

\* A faulty variant of BackoffDelay: the delay is not capped.
UncappedDelay(base, factor, k, cap) == base * Pow(factor, k)

\* "min(base_delay * (2 ** attempt), max_delay)".
BackoffDelay(base, factor, k, cap) == Min(base * Pow(factor, k), cap)

\* A faulty variant of IsRetryableResponse: every status but 200 is retried.
IsNot200(out) == out.kind = "response" /\ out.code # 200

\* "hasattr(result, 'status_code')" and "status_code in retryable_status_codes".
IsRetryableResponse(out) ==
    out.kind = "response" /\ out.code \in retryable_status_codes

\* A faulty variant of RetryReturns: the result is dropped, None is returned.
RetryReturnsNone(result) ==
    /\ retry_pc' = "returned"
    /\ retry_result' = None

\* The executor returns result.
RetryReturns(result) ==
    /\ retry_pc' = "returned"
    /\ retry_result' = result

\* The executor raises e.
RetryRaises(e) ==
    /\ retry_pc' = "raised"
    /\ retry_result' = e

\* "time.sleep(delay)", then the next iteration if there is one; after the
\* loop, "if last_exception: raise last_exception", else None is returned.
SleepAndContinue(factor, e) ==
    /\ sleeps' = Append(sleeps, BackoffDelay(base_delay, factor, attempt, max_delay))
    /\ attempt' = attempt + 1
    /\ IF attempt + 1 < Attempts(max_retries)
       THEN UNCHANGED <<retry_pc, retry_result>>
       ELSE IF e = None THEN RetryReturns(None) ELSE RetryRaises(e)

\* retry_on_failure, lines 284-298: one iteration of the loop.
RetryOnFailureAttempt ==
    /\ retry_fn = "retry_on_failure"
    /\ retry_pc = "loop"
    /\ IF attempt >= Attempts(max_retries)
       THEN /\ RetryReturns(None)
            /\ UNCHANGED <<calls, sleeps, attempt, last_exception>>
       ELSE \E out \in Outcomes(Len(calls) + 1) :
              /\ calls' = Append(calls, out)
              /\ IF out.kind # "raise"
                 THEN /\ RetryReturns(Some(out))
                      /\ UNCHANGED <<sleeps, attempt, last_exception>>
                 ELSE /\ last_exception' = Some(out)
                      /\ IF attempt < max_retries
                         THEN SleepAndContinue(2, Some(out))
                         ELSE /\ RetryRaises(Some(out))
                              /\ UNCHANGED <<sleeps, attempt>>
    /\ UNCHANGED <<retry_fn, max_retries, base_delay, max_delay>>
    /\ UNCHANGED notRetryVars

\* The wrapper of with_exponential_backoff, lines 214-252: one iteration.
BackoffAttempt ==
    /\ retry_fn = "with_exponential_backoff"
    /\ retry_pc = "loop"
    /\ IF attempt >= Attempts(max_retries)
       THEN /\ RetryReturns(None)
            /\ UNCHANGED <<calls, sleeps, attempt, last_exception>>
       ELSE \E out \in Outcomes(Len(calls) + 1) :
              /\ calls' = Append(calls, out)
              /\ IF out.kind = "raise"
                 THEN /\ last_exception' = Some(out)
                      /\ IF attempt < max_retries
                         THEN SleepAndContinue(exponential_base, Some(out))
                         ELSE /\ RetryRaises(Some(out))
                              /\ UNCHANGED <<sleeps, attempt>>
                 ELSE /\ UNCHANGED last_exception
                      /\ IF IsRetryableResponse(out) /\ attempt < max_retries
                         THEN SleepAndContinue(exponential_base, last_exception)
                         ELSE /\ RetryReturns(Some(out))
                              /\ UNCHANGED <<sleeps, attempt>>
    /\ UNCHANGED <<retry_fn, max_retries, base_delay, max_delay>>
    /\ UNCHANGED notRetryVars

CoreIdle ==
    /\ seen_items = EmptyStore
    /\ email_history = <<>>
    /\ now = 0
    /\ pc = "idle"
    /\ si = 0
    /\ items = <<>>
    /\ all_items = <<>>
    /\ new_items = <<>>
    /\ plum_items = <<>>
    /\ top_items = <<>>
    /\ success = FALSE
    /\ exc = "none"
    /\ closed = {}
    /\ adapter = "none"
    /\ adapter_pc = "none"
    /\ term_i = 0
    /\ acc_items = <<>>
    /\ seen_ids = {}
    /\ filter_input = <<>>
    /\ filter_result = <<>>
    /\ store_before = EmptyStore
    /\ last_op = "none"
    /\ deleted = 0
    /\ log = <<>>
    /\ last_error = None
    /\ parsed_count = 0
    /\ first_parsed = EmptyStore
    /\ last_parsed = EmptyStore
    /\ delivered = {}
    /\ undelivered = {}

\* An executor is entered with its arguments.
InitRetry ==
    /\ CoreIdle
    /\ retry_fn \in {"retry_on_failure", "with_exponential_backoff"}
    /\ max_retries \in 0..MaxRetries
    /\ base_delay \in BaseDelays
    /\ max_delay \in MaxDelays
    /\ attempt = 0
    /\ calls = <<>>
    /\ sleeps = <<>>
    /\ last_exception = None
    /\ retry_pc = "loop"
    /\ retry_result = None
    /\ CacheEmpty
    /\ RobotsEmpty
    /\ SearchIdle
    /\ PureIdle

NextRetry ==
    \/ RetryOnFailureAttempt
    \/ BackoffAttempt

SpecRetry == InitRetry /\ [][NextRetry]_vars

----------------------------------------------------------------------------
\* Properties of the retry executors.

\* The response carries one of the five status codes that are retried.
HasListedStatus(out) ==
    out.kind = "response" /\ out.code \in {429, 500, 502, 503, 504}

AllRaise(cs) == \A i \in DOMAIN cs : cs[i].kind = "raise"

\* A call failed: it raised, or the wrapper got a retryable response from it.
Failed(out) ==
    \/ out.kind = "raise"
    \/ retry_fn = "with_exponential_backoff" /\ HasListedStatus(out)

AllFail(cs) == \A i \in DOMAIN cs : Failed(cs[i])

RetryEnded == retry_pc \in {"returned", "raised"}

\* C12: retry_on_failure never calls the operation more than max_retries + 1
\* times; when every call raised, it has called it exactly max_retries + 1
\* times once it ends, and it ends by raising the exception of the last call.
C12_RetryBound ==
    retry_fn = "retry_on_failure" =>
        /\ Len(calls) <= max_retries + 1
        /\ (RetryEnded /\ AllRaise(calls)) =>
              /\ Len(calls) = max_retries + 1
              /\ retry_pc = "raised"
              /\ retry_result = Some(calls[Len(calls)])

\* retry_on_failure has given up after four calls that all raised.
C12_Witness ==
    /\ retry_fn = "retry_on_failure"
    /\ max_retries = 3
    /\ retry_pc = "raised"
    /\ AllRaise(calls)
    /\ Len(calls) = 4
    /\ retry_result = Some(Raised(4))

\* C13: in both executors the k-th sleep (k from 0) lasts
\* min(base_delay * 2^k, max_delay); the delays never decrease and never
\* exceed max_delay; no sleep follows the last call, so an operation that
\* failed every time was followed by exactly max_retries sleeps.
C13_BackoffDelays ==
    retry_fn \in {"retry_on_failure", "with_exponential_backoff"} =>
        /\ \A k \in DOMAIN sleeps :
              /\ sleeps[k] = Min(base_delay * Pow(2, k - 1), max_delay)
              /\ sleeps[k] <= max_delay
              /\ k > 1 => sleeps[k - 1] <= sleeps[k]
        /\ Len(sleeps) <= max_retries
        /\ RetryEnded => Len(sleeps) = Len(calls) - 1
        /\ (RetryEnded /\ AllFail(calls)) => Len(sleeps) = max_retries

\* An executor has ended after sleeping 2 s, 3 s and 3 s: the cap was applied.
C13_Witness ==
    /\ RetryEnded
    /\ AllFail(calls)
    /\ base_delay = 2
    /\ max_delay = 3
    /\ sleeps = <<2, 3, 3>>

\* C14: the wrapper of with_exponential_backoff that got a retryable status
\* from every call has made max_retries + 1 calls when it ends and returns
\* the last response; a result that is not a retryable response ends the loop
\* at once and is returned; an exception of the last attempt is raised.
C14_BackoffStatusCodes ==
    retry_fn = "with_exponential_backoff" =>
        /\ Len(calls) <= max_retries + 1
        /\ (RetryEnded /\ \A i \in DOMAIN calls : HasListedStatus(calls[i])) =>
              /\ Len(calls) = max_retries + 1
              /\ retry_pc = "returned"
              /\ retry_result = Some(calls[Len(calls)])
        /\ \A i \in DOMAIN calls :
              (calls[i].kind # "raise" /\ ~HasListedStatus(calls[i])) =>
                  /\ i = Len(calls)
                  /\ retry_pc = "returned"
                  /\ retry_result = Some(calls[i])
        /\ (RetryEnded /\ Len(calls) = max_retries + 1
              /\ calls[Len(calls)].kind = "raise") =>
              /\ retry_pc = "raised"
              /\ retry_result = Some(calls[Len(calls)])

\* The wrapper has returned a 503 response after four calls that were all
\* answered with a retryable status.
C14_Witness ==
    /\ retry_fn = "with_exponential_backoff"
    /\ max_retries = 3
    /\ retry_pc = "returned"
    /\ Len(calls) = 4
    /\ \A i \in DOMAIN calls : HasListedStatus(calls[i])
    /\ retry_result = Some(Returned("response", 503))

------------------------------------------------------------------

----------------------------------------------------------------------------
\* ResponseCache (utils.py), one method call per step.  Times are in seconds.
\* The md5 digest of _make_key is taken to be free of collisions: a key is
\* the text that is hashed.

CacheMaxNow == 2   \* the clock stops here

default_ttl == 2   \* ResponseCache(default_ttl), 300 in the adapters, scaled

\* The (url, params) pairs of the calls.  params is None, the empty dict, or
\* a dict, written as json.dumps writes it.
Requests ==
    {<<"u", None>>, <<"u", Some("{}")>>, <<"u", Some("{q}")>>, <<"u{q}", None>>}

\* ttl: None, or a number of seconds.
Ttls == {None, Some(0), Some(1)}

Datas == {"d1", "d2"}

\* "if params: key_data += json.dumps(params, sort_keys=True)": None and the
\* empty dict add nothing.
make_key(url, params) ==
    IF params = None \/ params = Some("{}") THEN url ELSE url \o Val(params)

CacheKeys == {make_key(r[1], r[2]) : r \in Requests}

\* The entry of key k in cache c, as an Optional.
Entry(c, k) == IF k \in DOMAIN c THEN Some(c[k]) ELSE None

Without(c, k) == [j \in DOMAIN c \ {k} |-> c[j]]

With(c, k, v) == [j \in DOMAIN c \cup {k} |-> IF j = k THEN v ELSE c[j]]

NoCacheCall == [op |-> "none", key |-> "", result |-> None]

\* get finds an entry that has not expired: "datetime.now() < expiry".
cache_hit(c, key, t) == key \in DOMAIN c /\ t < c[key][2]

\* What get returns.
cache_get(c, key, t) == IF cache_hit(c, key, t) THEN Some(c[key][1]) ELSE None

\* The cache after get: an expired entry is removed.
cache_after_get(c, key, t) ==
    IF key \in DOMAIN c /\ ~cache_hit(c, key, t) THEN Without(c, key) ELSE c

\* ResponseCache.get, lines 144-154.
CacheGet ==
    /\ \E r \in Requests :
          LET key == make_key(r[1], r[2])
          IN  /\ cache' = cache_after_get(cache, key, cache_now)
              /\ cache_call' = [op |-> "get", key |-> key,
                                result |-> cache_get(cache, key, cache_now)]
    /\ UNCHANGED <<cache_now, latest_set>>
    /\ UNCHANGED notCacheVars

\* "datetime.now() + timedelta(seconds=ttl or self.default_ttl)": a ttl of 0
\* is falsy and gives way to default_ttl.
expiry_of(t, ttl) ==
    t + (IF ttl = None \/ ttl = Some(0) THEN default_ttl ELSE Val(ttl))

\* The cache after set.
cache_set(c, key, data, ttl, t) == With(c, key, <<data, expiry_of(t, ttl)>>)

\* ResponseCache.set, lines 166-168.
CacheSet ==
    /\ \E r \in Requests, data \in Datas, ttl \in Ttls :
          LET key == make_key(r[1], r[2])
          IN  /\ cache' = cache_set(cache, key, data, ttl, cache_now)
              /\ latest_set' = With(latest_set, key,
                                    [data |-> data, time |-> cache_now, ttl |-> ttl])
              /\ cache_call' = [op |-> "set", key |-> key, result |-> None]
    /\ UNCHANGED cache_now
    /\ UNCHANGED notCacheVars

\* ResponseCache.clear, line 172.
CacheClear ==
    /\ cache' = [k \in {} |-> <<>>]
    /\ latest_set' = [k \in {} |-> <<>>]
    /\ cache_call' = [op |-> "clear", key |-> "", result |-> None]
    /\ UNCHANGED cache_now
    /\ UNCHANGED notCacheVars

\* ResponseCache.cleanup, lines 176-182.
CacheCleanup ==
    /\ cache' = [k \in {j \in DOMAIN cache : ~(cache_now >= cache[j][2])} |-> cache[k]]
    /\ cache_call' = [op |-> "cleanup", key |-> "", result |-> None]
    /\ UNCHANGED <<cache_now, latest_set>>
    /\ UNCHANGED notCacheVars

\* A second passes.
CacheTick ==
    /\ cache_now < CacheMaxNow
    /\ cache_now' = cache_now + 1
    /\ cache_call' = NoCacheCall
    /\ UNCHANGED <<cache, latest_set>>
    /\ UNCHANGED notCacheVars

InitCache ==
    /\ CoreIdle
    /\ RetryIdle
    /\ CacheEmpty
    /\ RobotsEmpty
    /\ SearchIdle
    /\ PureIdle

NextCache ==
    \/ CacheGet
    \/ CacheSet
    \/ CacheClear
    \/ CacheCleanup
    \/ CacheTick

SpecCache == InitCache /\ [][NextCache]_vars

\* The expiry the entry of a set has when the ttl that was given counts, and
\* default_ttl only when none was given.
GivenExpiry(st) == st.time + (IF st.ttl = None THEN default_ttl ELSE Val(st.ttl))

\* A get has just returned what the latest set of its key and its expiry call for.
GetAnswersLatestSet ==
    cache_call.op = "get" =>
        LET k == cache_call.key
        IN  IF k \in DOMAIN latest_set /\ cache_now < GivenExpiry(latest_set[k])
            THEN cache_call.result = Some(latest_set[k].data)
            ELSE cache_call.result = None /\ k \notin DOMAIN cache

\* A get or a set that changes the cache changes the entry of its key only.
OtherKeysUnchanged ==
    (cache' # cache /\ cache_call'.op \in {"get", "set"}) =>
        \A k \in CacheKeys \ {cache_call'.key} : Entry(cache', k) = Entry(cache, k)

\* C19: get returns the data of the latest set of its key if and only if the
\* time of the get is strictly before that set's time plus the ttl given to it
\* (default_ttl when none was given); otherwise it returns None and no entry
\* is left under the key; get and set leave the other keys' entries unchanged.
C19_CacheGet == [](GetAnswersLatestSet) /\ [][OtherKeysUnchanged]_vars

----------------------------------------------------------------------------
\* RobotsChecker (utils.py), one can_fetch call per step.  Times are in hours.
\* A ruleset is the set of the paths it disallows for the user agent.  Every
\* adapter hands its HTTP client to can_fetch, so robots.txt is fetched with
\* client.get (lines 53-60).

RobotsMaxNow == 36   \* the clock stops here

RobotsTick == 12     \* the clock advances by this much between two calls

cache_duration == 24 \* timedelta(hours=24)

\* The adapters that call can_fetch, with the domain of their URLs.
RobotsSites ==
    {<<"craigslist", "sfbay.craigslist.org">>, <<"mercari", "www.mercari.com">>}

RobotsPaths == {"/search", "/item"}

\* What the fetch of robots.txt can give: a 200 response with rules, a
\* response with another status, or an exception of client.get.
RobotsFetches ==
    {[kind |-> "200", rules |-> {}],
     [kind |-> "200", rules |-> {"/search"}],
     [kind |-> "non200", rules |-> {"/search"}],
     [kind |-> "error", rules |-> {}]}

\* The ruleset that is stored: the parsed text of a 200 response;
\* "parser.parse([])", which allows everything, otherwise.
ParsedRules(f) == IF f.kind = "200" THEN f.rules ELSE {}

\* A faulty variant of StillValid: a stored ruleset is never reused.
NeverValid(t, fetch_time) == FALSE

\* "datetime.now() - fetch_time < self._cache_duration"
StillValid(t, fetch_time) == t - fetch_time < cache_duration

\* RobotFileParser.can_fetch for a ruleset.
RulesAllow(rules, path) == path \notin rules

\* RobotsChecker.can_fetch, lines 87-95, with _get_parser, lines 39-74.
CanFetch ==
    /\ \E site \in RobotsSites, path \in RobotsPaths :
          LET caller == site[1]
              d == site[2]
          IN
          IF /\ d \in DOMAIN parsers
             /\ d \in DOMAIN fetch_times
             /\ StillValid(robots_now, fetch_times[d])
          THEN /\ robots_call' = [caller |-> caller, domain |-> d, path |-> path,
                                  fetched |-> FALSE,
                                  result |-> RulesAllow(parsers[d], path)]
               /\ UNCHANGED <<parsers, fetch_times, robots_log>>
          ELSE \E f \in RobotsFetches :
                 /\ parsers' = With(parsers, d, ParsedRules(f))
                 /\ fetch_times' = With(fetch_times, d, robots_now)
                 /\ robots_log' =
                       With(robots_log, d,
                            Append(IF d \in DOMAIN robots_log THEN robots_log[d] ELSE <<>>,
                                   [time |-> robots_now, kind |-> f.kind,
                                    rules |-> ParsedRules(f)]))
                 /\ robots_call' = [caller |-> caller, domain |-> d, path |-> path,
                                    fetched |-> TRUE,
                                    result |-> RulesAllow(ParsedRules(f), path)]
    /\ UNCHANGED robots_now
    /\ UNCHANGED notRobotsVars

\* Hours pass.
RobotsTickStep ==
    /\ robots_now + RobotsTick <= RobotsMaxNow
    /\ robots_now' = robots_now + RobotsTick
    /\ robots_call' = NoRobotsCall
    /\ UNCHANGED <<parsers, fetch_times, robots_log>>
    /\ UNCHANGED notRobotsVars

InitRobots ==
    /\ CoreIdle
    /\ RetryIdle
    /\ CacheEmpty
    /\ RobotsEmpty
    /\ SearchIdle
    /\ PureIdle

NextRobots ==
    \/ CanFetch
    \/ RobotsTickStep

SpecRobots == InitRobots /\ [][NextRobots]_vars

\* The latest fetch of the robots.txt of domain d.
LastFetch(d) == robots_log[d][Len(robots_log[d])]

\* C20: two fetches of the robots.txt of one domain are at least 24 hours
\* apart; a can_fetch call less than 24 hours after the latest fetch makes no
\* fetch and answers from the ruleset stored by that fetch; after a fetch
\* that failed or was answered with a status other than 200, can_fetch
\* answers true for the domain.
C20_RobotsFetchedOncePerDay ==
    /\ \A d \in DOMAIN robots_log :
          /\ \A i, j \in DOMAIN robots_log[d] :
                i < j => robots_log[d][j].time - robots_log[d][i].time >= 24
          /\ parsers[d] = LastFetch(d).rules
          /\ fetch_times[d] = LastFetch(d).time
    /\ robots_call.caller # "none" =>
          LET d == robots_call.domain
          IN  /\ d \in DOMAIN robots_log
              /\ robots_call.fetched => LastFetch(d).time = robots_now
              /\ ~robots_call.fetched => robots_now - LastFetch(d).time < 24
              /\ robots_call.result = (robots_call.path \notin LastFetch(d).rules)
              /\ LastFetch(d).kind \in {"non200", "error"} => robots_call.result

\* A second fetch of a domain's robots.txt has failed, and a later call for a
\* path its first ruleset disallowed was answered true without a fetch.
C20_Witness ==
    /\ robots_call.caller # "none"
    /\ ~robots_call.fetched
    /\ robots_call.result
    /\ robots_call.path = "/search"
    /\ Len(robots_log[robots_call.domain]) = 2
    /\ robots_log[robots_call.domain][1].rules = {"/search"}
    /\ LastFetch(robots_call.domain).kind = "error"
    /\ robots_now > LastFetch(robots_call.domain).time

----------------------------------------------------------------------------
\* The search(query) method of the six adapters (src/src/scrapers/*.py), one
\* robots.txt check or one HTTP request per step.  net lists what the current
\* call has done so far: the can_fetch checks, the requests with their
\* outcomes, and the time.sleep calls.  The list a search returns is kept as
\* "items" (not empty) or "empty".

MaxSearches == 2       \* search calls made on one adapter instance

REQUEST_DELAY == 2     \* config.REQUEST_DELAY, seconds

FetchRetries == 3      \* max_retries of _fetch_with_retry

FetchMaxDelay == 30    \* max_delay of _fetch_with_retry

Queries == {"plum throw pillow", "purple accent pillow"}

\* Adapters whose search consults the ResponseCache, checks robots.txt, and
\* fetches through _fetch_with_retry.
CachedAdapters == {"craigslist", "offerup", "mercari", "poshmark"}

CheckingAdapters == {"craigslist", "mercari"}

RetryAdapters == {"craigslist", "offerup", "mercari", "poshmark"}

\* The URL of each request of search.
Url ==
    [craigslist |-> [html |-> "https://sfbay.craigslist.org/search/sss"],
     offerup |-> [api |-> "https://offerup.com/api/graphql",
                  fallback |-> "https://offerup.com/api/search/v4/feed/"],
     mercari |-> [api |-> "https://www.mercari.com/api/search/public/v1/items",
                  graphql |-> "https://www.mercari.com/search/?keyword=",
                  html |-> "https://www.mercari.com/search/?keyword=&status=on_sale"],
     poshmark |-> [html |-> "https://poshmark.com/search"],
     ebay |-> [token |-> "https://api.ebay.com/identity/v1/oauth2/token",
               api |-> "https://api.ebay.com/buy/browse/v1/item_summary/search",
               html |-> "https://www.ebay.com/sch/i.html"],
     etsy |-> [api |-> "https://openapi.etsy.com/v3/application/listings/active",
               session |-> "https://www.etsy.com",
               html |-> "https://www.etsy.com/search"]]

\* The URLs that serve HTML pages; the others are JSON API endpoints.
HtmlPages ==
    {Url.craigslist.html, Url.mercari.graphql, Url.mercari.html,
     Url.poshmark.html, Url.ebay.html, Url.etsy.session, Url.etsy.html}

\* The API endpoints that take the credential of eBay or Etsy.
ApiEndpoints == {Url.ebay.token, Url.ebay.api, Url.etsy.api}

\* What a request gives: a 200 response whose parse gives listings or none,
\* a response with an error status, or an exception of the client (timeout).
Outcomes200 == {"items", "empty"}

StatusOutcomes == {"401", "403", "429", "503"}

AllOutcomes == Outcomes200 \cup StatusOutcomes \cup {"timeout"}

\* do_fetch raises on an error status (raise_for_status) as on a timeout.
RetryOutcomes == Outcomes200 \cup {"503", "timeout"}

\* The failures that are transient: a timeout, a 5xx or a 429 response.
Transient == {"429", "503", "timeout"}

GetEv(url, out) == [ev |-> "get", url |-> url, val |-> out, secs |-> 0]

CheckEv(url, allowed) ==
    [ev |-> "check", url |-> url,
     val |-> IF allowed THEN "allowed" ELSE "disallowed", secs |-> 0]

SleepEv(n) == [ev |-> "sleep", url |-> "", val |-> "", secs |-> n]

\* The cache key of a search: craigslist.py:116-117, offerup.py:78,
\* mercari.py:77, poshmark.py:69.
SearchKey(a, q) ==
    IF a = "craigslist"
    THEN make_key(Url.craigslist.html, Some("{" \o q \o "}"))
    ELSE make_key(a \o "_" \o q, None)

\* "if cached": None and the empty list are falsy.
Truthy(cached) == cached # None /\ Val(cached) # "empty"

\* The last request in the events evs has no sleep of REQUEST_DELAY or more
\* after it (before, when evs holds no request).
RECURSIVE EndsUnslept(_, _)
EndsUnslept(evs, before) ==
    IF evs = <<>> THEN before
    ELSE LET e == evs[Len(evs)]
             rest == SubSeq(evs, 1, Len(evs) - 1)
         IN  IF e.ev = "get" THEN TRUE
             ELSE IF e.ev = "sleep" /\ e.secs >= REQUEST_DELAY THEN FALSE
             ELSE EndsUnslept(rest, before)

\* The variables a step inside a call leaves alone.
callFrame == <<sc, sc_calls, sc_query, pending_fetch, api_at_start>>

flagVars == <<use_api, access_token, cookies_set>>

\* search returns the list found, after the events evs.
Return(found, evs) ==
    /\ net' = net \o evs
    /\ sc_pc' = "returned"
    /\ sc_step' = "none"
    /\ sc_attempt' = 0
    /\ sc_items' = found

\* search goes on to its request named phase, after the events evs.
Goto(phase, evs) ==
    /\ net' = net \o evs
    /\ sc_pc' = phase
    /\ sc_step' = IF sc \in CheckingAdapters THEN "check" ELSE "fetch"
    /\ sc_attempt' = 0
    /\ UNCHANGED sc_items

\* An exception leaves search.
Raise(evs) ==
    /\ net' = net \o evs
    /\ sc_pc' = "raised"
    /\ sc_step' = "none"
    /\ sc_attempt' = 0
    /\ UNCHANGED sc_items

\* A faulty variant of TakesApiPath: the API path is taken whatever use_api says.
AlwaysApiPath(flag) == TRUE

\* "if self.use_api:" in EbayScraper.search and EtsyScraper.search.
TakesApiPath(flag) == flag

\* EtsyScraper._search_html begins with _init_session, which does nothing
\* once _cookies_set.
EtsyHtmlEntry == IF cookies_set THEN "html" ELSE "session"

\* The first request of search: token is whether a valid access token is held.
EntryPhase(a, token) ==
    CASE a \in {"craigslist", "poshmark"} -> "html"
      [] a \in {"offerup", "mercari"} -> "api"
      [] a = "ebay" -> IF TakesApiPath(use_api)
                       THEN (IF token THEN "api" ELSE "token")
                       ELSE "html"
      [] a = "etsy" -> IF TakesApiPath(use_api) THEN "api" ELSE EtsyHtmlEntry

\* search(query) is called: the cache is consulted by the adapters that have
\* one, and a hit is returned at once.  The access token of eBay may have
\* expired since the call before.
SearchStart ==
    /\ sc_pc \in {"ready", "returned"}
    /\ sc_calls < MaxSearches
    /\ \E q \in Queries, expired \in BOOLEAN :
          LET key == SearchKey(sc, q)
              cached == IF sc \in CachedAdapters
                        THEN cache_get(cache, key, cache_now) ELSE None
              token == access_token /\ ~expired
          IN  /\ expired => access_token
              /\ sc_query' = q
              /\ sc_calls' = sc_calls + 1
              /\ pending_fetch' = EndsUnslept(net, pending_fetch)
              /\ api_at_start' = use_api
              /\ access_token' = token
              /\ cache' = IF sc \in CachedAdapters
                          THEN cache_after_get(cache, key, cache_now) ELSE cache
              /\ net' = <<>>
              /\ sc_attempt' = 0
              /\ IF Truthy(cached)
                 THEN /\ sc_pc' = "returned"
                      /\ sc_step' = "none"
                      /\ sc_items' = Val(cached)
                 ELSE /\ sc_pc' = EntryPhase(sc, token)
                      /\ sc_step' = IF sc \in CheckingAdapters THEN "check" ELSE "fetch"
                      /\ sc_items' = "empty"
    /\ UNCHANGED <<sc, use_api, cookies_set>>
    /\ UNCHANGED notSearchVars

\* MercariScraper.search, lines 91-95: the results are cached when there are
\* some, then the inter-request sleep.
MercariFinish(found, evs) ==
    /\ cache' = IF found # "empty"
                THEN cache_set(cache, SearchKey(sc, sc_query), found, None, cache_now)
                ELSE cache
    /\ Return(found, evs \o <<SleepEv(REQUEST_DELAY)>>)

\* MercariScraper.search, lines 85-88: "if not items: _search_html_fallback".
MercariAfterApi(found, evs) ==
    IF found = "empty"
    THEN Goto("html", evs) /\ UNCHANGED cache
    ELSE MercariFinish(found, evs)

\* can_fetch answered false.
Disallowed(evs) ==
    CASE sc = "craigslist" -> Return("empty", evs) /\ UNCHANGED cache
      [] sc = "mercari" /\ sc_pc \in {"api", "graphql"} -> MercariAfterApi("empty", evs)
      [] sc = "mercari" /\ sc_pc = "html" -> MercariFinish("empty", evs)

\* "if not self.robots_checker.can_fetch(url, self.client)": craigslist.py:122,
\* mercari.py:104, 136, 271.
RobotsCheck ==
    /\ sc_step = "check"
    /\ \E allowed \in BOOLEAN :
          IF allowed
          THEN /\ net' = Append(net, CheckEv(Url[sc][sc_pc], TRUE))
               /\ sc_step' = "fetch"
               /\ UNCHANGED <<sc_pc, sc_attempt, sc_items, cache>>
          ELSE Disallowed(<<CheckEv(Url[sc][sc_pc], FALSE)>>)
    /\ UNCHANGED callFrame
    /\ UNCHANGED flagVars
    /\ UNCHANGED notSearchVars

\* _fetch_with_retry(url) runs do_fetch under retry_on_failure with
\* max_retries=3, base_delay=config.REQUEST_DELAY, max_delay=30.0: attempts
\* are left while fewer than max_retries have failed.
RetriesLeft == sc_attempt < FetchRetries

\* retry_on_failure after a failed attempt that is not the last: the backoff
\* sleep, then the next attempt.
RetryAgain(url, out) ==
    /\ net' = net \o <<GetEv(url, out),
                       SleepEv(BackoffDelay(REQUEST_DELAY, 2, sc_attempt,
                                            FetchMaxDelay))>>
    /\ sc_attempt' = sc_attempt + 1
    /\ UNCHANGED <<sc_pc, sc_step, sc_items, cache>>

\* craigslist.py:131-142: parse, cache.set, sleep.
CraigslistFetched(out, evs) ==
    /\ cache' = cache_set(cache, SearchKey(sc, sc_query), out, None, cache_now)
    /\ Return(out, evs \o <<SleepEv(REQUEST_DELAY)>>)

\* A faulty variant of CraigslistGaveUp: the exception of the last attempt
\* is not caught.
CraigslistGaveUpRaises(evs) == Raise(evs) /\ UNCHANGED cache

\* craigslist.py:99-101 and 128-129: "return None", then "return items".
CraigslistGaveUp(evs) == Return("empty", evs) /\ UNCHANGED cache

\* CraigslistScraper.search, lines 126-147.
CraigslistFetch ==
    /\ sc = "craigslist"
    /\ sc_step = "fetch"
    /\ \E out \in RetryOutcomes :
          LET url == Url.craigslist.html
              evs == <<GetEv(url, out)>>
          IN  CASE out \in Outcomes200 -> CraigslistFetched(out, evs)
                [] out \notin Outcomes200 /\ RetriesLeft -> RetryAgain(url, out)
                [] OTHER -> CraigslistGaveUp(evs)
    /\ UNCHANGED callFrame
    /\ UNCHANGED flagVars
    /\ UNCHANGED notSearchVars

\* offerup.py:128-137 (the GraphQL request) and 205-218 (the fallback).
OfferUpFetched(out, evs) ==
    /\ cache' = IF sc_pc = "api"
                THEN cache_set(cache, SearchKey(sc, sc_query), out, None, cache_now)
                ELSE cache
    /\ Return(out, evs \o <<SleepEv(REQUEST_DELAY)>>)

\* offerup.py:133-135: the fallback search follows a failed GraphQL request;
\* when it fails too the list is empty.
OfferUpGaveUp(evs) ==
    IF sc_pc = "api"
    THEN Goto("fallback", evs) /\ UNCHANGED cache
    ELSE Return("empty", evs \o <<SleepEv(REQUEST_DELAY)>>) /\ UNCHANGED cache

\* OfferUpScraper.search, lines 126-143, with _fallback_search.
OfferUpFetch ==
    /\ sc = "offerup"
    /\ sc_step = "fetch"
    /\ \E out \in RetryOutcomes :
          LET url == Url.offerup[sc_pc]
              evs == <<GetEv(url, out)>>
          IN  CASE out \in Outcomes200 -> OfferUpFetched(out, evs)
                [] out \notin Outcomes200 /\ RetriesLeft -> RetryAgain(url, out)
                [] OTHER -> OfferUpGaveUp(evs)
    /\ UNCHANGED callFrame
    /\ UNCHANGED flagVars
    /\ UNCHANGED notSearchVars

\* mercari.py:118-120, 141-161, 282 and on: the listings of a 200 response.
MercariFetched(out, evs) ==
    IF sc_pc = "html" THEN MercariFinish(out, evs) ELSE MercariAfterApi(out, evs)

\* mercari.py:121-122 (_search_graphql follows a failed API request), 141
\* and 280-281.
MercariGaveUp(evs) ==
    CASE sc_pc = "api" -> Goto("graphql", evs) /\ UNCHANGED cache
      [] sc_pc = "graphql" -> MercariAfterApi("empty", evs)
      [] sc_pc = "html" -> MercariFinish("empty", evs)

\* MercariScraper._search_api, _search_graphql, _search_html_fallback.
MercariFetch ==
    /\ sc = "mercari"
    /\ sc_step = "fetch"
    /\ \E out \in RetryOutcomes :
          LET url == Url.mercari[sc_pc]
              evs == <<GetEv(url, out)>>
          IN  CASE out \in Outcomes200 -> MercariFetched(out, evs)
                [] out \notin Outcomes200 /\ RetriesLeft -> RetryAgain(url, out)
                [] OTHER -> MercariGaveUp(evs)
    /\ UNCHANGED callFrame
    /\ UNCHANGED flagVars
    /\ UNCHANGED notSearchVars

\* poshmark.py:85-90: parse, cache.set, sleep.
PoshmarkFetched(out, evs) ==
    /\ cache' = cache_set(cache, SearchKey(sc, sc_query), out, None, cache_now)
    /\ Return(out, evs \o <<SleepEv(REQUEST_DELAY)>>)

\* poshmark.py:85 and 90: no response, the sleep is made all the same.
PoshmarkGaveUp(evs) ==
    Return("empty", evs \o <<SleepEv(REQUEST_DELAY)>>) /\ UNCHANGED cache

\* PoshmarkScraper.search, lines 83-95.
PoshmarkFetch ==
    /\ sc = "poshmark"
    /\ sc_step = "fetch"
    /\ \E out \in RetryOutcomes :
          LET url == Url.poshmark.html
              evs == <<GetEv(url, out)>>
          IN  CASE out \in Outcomes200 -> PoshmarkFetched(out, evs)
                [] out \notin Outcomes200 /\ RetriesLeft -> RetryAgain(url, out)
                [] OTHER -> PoshmarkGaveUp(evs)
    /\ UNCHANGED callFrame
    /\ UNCHANGED flagVars
    /\ UNCHANGED notSearchVars

\* EbayScraper._get_access_token, lines 64-94, the token request.  "items"
\* stands for a 200 response that holds an access token, "empty" for one that
\* holds none.  Without a token _search_api returns None and search falls
\* back to _search_html.
EbayToken ==
    /\ sc = "ebay"
    /\ sc_pc = "token"
    /\ \E out \in AllOutcomes :
          LET evs == <<GetEv(Url.ebay.token, out)>>
          IN  CASE out = "items" ->
                     /\ access_token' = TRUE
                     /\ Goto("api", evs)
                     /\ UNCHANGED use_api
                [] out = "empty" ->
                     /\ access_token' = FALSE
                     /\ Goto("html", evs)
                     /\ UNCHANGED use_api
                [] OTHER ->
                     /\ use_api' = FALSE
                     /\ Goto("html", evs)
                     /\ UNCHANGED access_token
    /\ UNCHANGED <<cookies_set, cache>>
    /\ UNCHANGED callFrame
    /\ UNCHANGED notSearchVars

\* EbayScraper._search_api, lines 137-157, the Browse API request.
EbayApi ==
    /\ sc = "ebay"
    /\ sc_pc = "api"
    /\ \E out \in AllOutcomes :
          LET evs == <<GetEv(Url.ebay.api, out)>>
          IN  CASE out \in Outcomes200 ->
                     /\ Return(out, evs \o <<SleepEv(REQUEST_DELAY)>>)
                     /\ UNCHANGED access_token
                [] out = "401" ->
                     /\ access_token' = FALSE
                     /\ Goto("html", evs)
                [] OTHER ->
                     /\ Goto("html", evs)
                     /\ UNCHANGED access_token
    /\ UNCHANGED <<use_api, cookies_set, cache>>
    /\ UNCHANGED callFrame
    /\ UNCHANGED notSearchVars

\* EbayScraper._search_html, lines 245-255: one request, raise_for_status,
\* and "except Exception" around both.
EbayHtml ==
    /\ sc = "ebay"
    /\ sc_pc = "html"
    /\ \E out \in AllOutcomes :
          LET evs == <<GetEv(Url.ebay.html, out)>>
          IN  IF out \in Outcomes200
              THEN Return(out, evs \o <<SleepEv(REQUEST_DELAY)>>)
              ELSE Return("empty", evs)
    /\ UNCHANGED <<cache>>
    /\ UNCHANGED flagVars
    /\ UNCHANGED callFrame
    /\ UNCHANGED notSearchVars

\* EtsyScraper._search_api, lines 84-110; on None search goes on to
\* _search_html.
EtsyApi ==
    /\ sc = "etsy"
    /\ sc_pc = "api"
    /\ \E out \in AllOutcomes :
          LET evs == <<GetEv(Url.etsy.api, out)>>
          IN  CASE out \in Outcomes200 ->
                     /\ Return(out, evs \o <<SleepEv(REQUEST_DELAY)>>)
                     /\ UNCHANGED use_api
                [] out \in {"401", "403"} ->
                     /\ use_api' = FALSE
                     /\ Goto(EtsyHtmlEntry, evs)
                [] out = "429" ->
                     /\ Goto(EtsyHtmlEntry, evs \o <<SleepEv(60)>>)
                     /\ UNCHANGED use_api
                [] OTHER ->
                     /\ Goto(EtsyHtmlEntry, evs)
                     /\ UNCHANGED use_api
    /\ UNCHANGED <<access_token, cookies_set, cache>>
    /\ UNCHANGED callFrame
    /\ UNCHANGED notSearchVars

\* EtsyScraper._init_session, lines 195-200: the home page is requested, any
\* response sets _cookies_set and is followed by a sleep of one second.
EtsySession ==
    /\ sc = "etsy"
    /\ sc_pc = "session"
    /\ \E out \in AllOutcomes :
          LET evs == <<GetEv(Url.etsy.session, out)>>
          IN  IF out = "timeout"
              THEN Goto("html", evs) /\ UNCHANGED cookies_set
              ELSE Goto("html", evs \o <<SleepEv(1)>>) /\ cookies_set' = TRUE
    /\ UNCHANGED <<use_api, access_token, cache>>
    /\ UNCHANGED callFrame
    /\ UNCHANGED notSearchVars

\* EtsyScraper._search_html, lines 216-230.
EtsyHtml ==
    /\ sc = "etsy"
    /\ sc_pc = "html"
    /\ \E out \in AllOutcomes :
          LET evs == <<GetEv(Url.etsy.html, out)>>
          IN  CASE out \in {"403", "timeout"} -> Return("empty", evs)
                [] out \in Outcomes200 ->
                     Return(out, evs \o <<SleepEv(REQUEST_DELAY)>>)
                [] OTHER -> Return("empty", evs \o <<SleepEv(REQUEST_DELAY)>>)
    /\ UNCHANGED <<cache>>
    /\ UNCHANGED flagVars
    /\ UNCHANGED callFrame
    /\ UNCHANGED notSearchVars

\* An adapter has been constructed; eBay and Etsy use their API when the
\* credential is configured: "self.use_api = bool(self.app_id)".
InitSearch ==
    /\ CoreIdle
    /\ RetryIdle
    /\ CacheEmpty
    /\ RobotsEmpty
    /\ PureIdle
    /\ sc \in Range(Scrapers)
    /\ sc_pc = "ready"
    /\ sc_step = "none"
    /\ sc_attempt = 0
    /\ sc_calls = 0
    /\ sc_query = ""
    /\ sc_items = "empty"
    /\ use_api \in (IF sc \in {"ebay", "etsy"} THEN BOOLEAN ELSE {FALSE})
    /\ access_token = FALSE
    /\ cookies_set = FALSE
    /\ net = <<>>
    /\ pending_fetch = FALSE
    /\ api_at_start = FALSE

NextSearch ==
    \/ SearchStart
    \/ RobotsCheck
    \/ CraigslistFetch
    \/ OfferUpFetch
    \/ MercariFetch
    \/ PoshmarkFetch
    \/ EbayToken
    \/ EbayApi
    \/ EbayHtml
    \/ EtsyApi
    \/ EtsySession
    \/ EtsyHtml

SpecSearch == InitSearch /\ [][NextSearch]_vars


\* ---- Properties of search ----

\* The positions of the requests among the events of the call.
GetAt == {i \in 1..Len(net) : net[i].ev = "get"}

\* The call made a request and none of its requests was answered with 200.
EveryFetchFailed ==
    /\ GetAt # {}
    /\ \A i \in GetAt : net[i].val \notin Outcomes200

\* C11: for each of the six adapters no exception leaves search(query),
\* whatever its requests give; a call whose every request failed returns the
\* empty list; and after a return the next call of search_all_terms can be
\* made.
C11_SearchNeverRaises ==
    /\ sc_pc # "raised"
    /\ (sc_pc = "returned" /\ EveryFetchFailed) => sc_items = "empty"
    /\ (sc_pc = "returned" /\ sc_calls < MaxSearches) => ENABLED SearchStart

\* The second call on a Craigslist adapter returned the empty list after all
\* four attempts of its page fetch failed.
C11_Witness ==
    /\ sc = "craigslist"
    /\ sc_calls = 2
    /\ sc_pc = "returned"
    /\ sc_items = "empty"
    /\ EveryFetchFailed
    /\ Cardinality(GetAt) = FetchRetries + 1


\* The request at position i of the call is followed by a backoff sleep and
\* another request of the same URL.
Retried(i) ==
    /\ i + 2 <= Len(net)
    /\ net[i + 1].ev = "sleep"
    /\ net[i + 2].ev = "get"
    /\ net[i + 2].url = net[i].url

\* The request at position i is the last of max_retries + 1 attempts on its URL.
Exhausted(i) ==
    Cardinality({j \in GetAt : j <= i /\ net[j].url = net[i].url}) >= FetchRetries + 1

\* C15: for every adapter, when search has returned, each of its requests
\* that failed transiently (timeout, 5xx, 429) was attempted again after a
\* backoff sleep, unless it was the last of the bounded number of attempts.
C15_TransientFetchRetried ==
    sc_pc = "returned" =>
        \A i \in GetAt : net[i].val \in Transient => (Retried(i) \/ Exhausted(i))

\* The same requirement on the adapters that fetch through _fetch_with_retry.
RetryAdaptersRetry == sc \in RetryAdapters => C15_TransientFetchRetried


\* This step makes the request of url and gets one of the answers outs.
StepRequests(url, outs) ==
    \E i \in (Len(net) + 1)..Len(net') :
        /\ net'[i].ev = "get"
        /\ net'[i].url = url
        /\ net'[i].val \in outs

\* The step in which the credential is found rejected: the eBay token request
\* fails, or the Etsy API answers 401 or 403.
CredentialRejected ==
    \/ StepRequests(Url.ebay.token, StatusOutcomes \cup {"timeout"})
    \/ StepRequests(Url.etsy.api, {"401", "403"})

\* A call that began with use_api false issues no request to an API endpoint
\* and, once it has returned, has requested the HTML search page.
HtmlPathOnly ==
    (sc \in {"ebay", "etsy"} /\ sc_calls > 0 /\ ~api_at_start) =>
        /\ \A i \in GetAt : net[i].url \notin ApiEndpoints
        /\ sc_pc = "returned" => \E i \in GetAt : net[i].url = Url[sc].html

\* C16: the step in which an eBay or Etsy adapter finds its credential
\* rejected sets use_api to false; use_api never goes from false to true; and
\* every search call that begins with use_api false (credential missing at
\* construction, or rejected in an earlier call) issues no API request and
\* takes the HTML path.
C16_StickyHtmlFallback ==
    /\ [](HtmlPathOnly)
    /\ [][CredentialRejected => ~use_api']_vars
    /\ [][~use_api => ~use_api']_vars

\* The second call on an Etsy adapter after the API key was rejected: it
\* began with use_api false and returned from the HTML search page, the
\* session cookies having been set by the first call.
C16_Witness ==
    /\ sc = "etsy"
    /\ sc_calls = 2
    /\ ~api_at_start
    /\ ~use_api
    /\ cookies_set
    /\ sc_pc = "returned"
    /\ GetAt # {}
    /\ \A i \in GetAt : net[i].url = Url.etsy.html


\* The search-results pages among the HTML pages.
SearchPages == HtmlPages \ {Url.etsy.session}

\* Before position i, can_fetch was asked about the URL and answered true.
CheckedBefore(i) ==
    \E j \in 1..(i - 1) : net[j] = CheckEv(net[i].url, TRUE)

\* C17: every request of an HTML search-results page is preceded, in the same
\* call, by a can_fetch check of that URL that answered true; requests to
\* JSON API endpoints need none.
C17_HtmlRequestsChecked ==
    \A i \in GetAt : net[i].url \in SearchPages => CheckedBefore(i)

\* The same requirement on the adapters that call can_fetch.
CheckingAdaptersCheck == sc \in CheckingAdapters => C17_HtmlRequestsChecked


\* Between positions i and j the adapter sleeps REQUEST_DELAY or longer.
SleptBetween(i, j) ==
    \E k \in (i + 1)..(j - 1) : net[k].ev = "sleep" /\ net[k].secs >= REQUEST_DELAY

\* Before position j of this call the adapter slept REQUEST_DELAY or longer.
SleptBefore(j) == SleptBetween(0, j)

\* C18: between a request of an adapter and its next request the adapter
\* sleeps config.REQUEST_DELAY (a longer backoff sleep counts too), within
\* one call of search and from one call to the next.
C18_SleepAfterEveryFetch ==
    /\ \A i \in GetAt, j \in GetAt : i < j => SleptBetween(i, j)
    /\ pending_fetch => \A j \in GetAt : SleptBefore(j)


----------------------------------------------------------------------------
\* Properties of the tracker operations, called directly.

\* The row of id has the same values in every column but last_seen_at.
SameButLastSeen(id) ==
    /\ seen_items'[id].first_seen_at = seen_items[id].first_seen_at
    /\ seen_items'[id].url = seen_items[id].url
    /\ seen_items'[id].title = seen_items[id].title
    /\ seen_items'[id].source = seen_items[id].source
    /\ seen_items'[id].sent_in_email = seen_items[id].sent_in_email

\* This step is a call of mark_seen(item) for an item of the given id.
MarkSeenOf(id) ==
    /\ last_op' = "mark_seen"
    /\ now' = now
    /\ id \in DOMAIN seen_items'
    /\ seen_items'[id].last_seen_at = now
    /\ \A other \in DOMAIN seen_items' \ {id} :
          other \in DOMAIN seen_items /\ seen_items'[other] = seen_items[other]

\* C21: a call of mark_seen touches the row of one id and no other row; when
\* the id has a row already, the row stays one row and only last_seen_at
\* changes; when it has none, a row is inserted with first_seen_at =
\* last_seen_at = now and sent_in_email = 0.
C21_MarkSeenUpdatesLastSeen ==
    [][(last_op' = "mark_seen" /\ now' = now) =>
          \E id \in TrackerIds :
              /\ MarkSeenOf(id)
              /\ DOMAIN seen_items' = DOMAIN seen_items \cup {id}
              /\ IF id \in DOMAIN seen_items
                 THEN SameButLastSeen(id)
                 ELSE /\ seen_items'[id].first_seen_at = now
                      /\ seen_items'[id].last_seen_at = now
                      /\ seen_items'[id].sent_in_email = 0]_vars

\* mark_seen was called, at a later time and with another title, for an id
\* that had a row already marked as sent: the row keeps its first_seen_at,
\* title and flag.
C21_Witness ==
    /\ last_op = "mark_seen"
    /\ \E id \in DOMAIN seen_items :
          /\ seen_items[id].last_seen_at = now
          /\ seen_items[id].first_seen_at < now
          /\ seen_items[id].sent_in_email = 1

\* This step is a call of cleanup_old_items(days=90).
CleanupCall == last_op' = "cleanup_old_items" /\ now' = now

\* The rows first seen strictly before now minus 90 days.
OlderThanRetention ==
    {id \in DOMAIN seen_items : seen_items[id].first_seen_at < now - RETENTION_DAYS}

\* C22: cleanup_old_items(days) deletes exactly the rows whose first_seen_at
\* is strictly before now - days, leaves every other row and the email
\* history as they are, and returns the number of rows deleted.
C22_CleanupDeletesOldRows ==
    [][CleanupCall =>
          /\ DOMAIN seen_items' = DOMAIN seen_items \ OlderThanRetention
          /\ \A id \in DOMAIN seen_items' : seen_items'[id] = seen_items[id]
          /\ email_history' = email_history
          /\ deleted' = Cardinality(OlderThanRetention)]_vars

\* A cleanup deleted one row and kept a row first seen exactly 90 days ago,
\* the email history holding a row.
C22_Witness ==
    /\ last_op = "cleanup_old_items"
    /\ deleted = 1
    /\ email_history # <<>>
    /\ \E id \in DOMAIN seen_items : seen_items[id].first_seen_at = now - RETENTION_DAYS


----------------------------------------------------------------------------
\* The colour analyzer (src/src/analyzer/color_detection.py).  Scores are in
\* thousandths.

strong_keywords ==
    <<<<"p", "l", "u", "m">>,
       <<"e", "g", "g", "p", "l", "a", "n", "t">>,
       <<"a", "u", "b", "e", "r", "g", "i", "n", "e">>>>

medium_keywords ==
    <<<<"p", "u", "r", "p", "l", "e">>,
       <<"v", "i", "o", "l", "e", "t">>,
       <<"g", "r", "a", "p", "e">>>>

weak_keywords ==
    <<<<"m", "a", "u", "v", "e">>,
       <<"l", "a", "v", "e", "n", "d", "e", "r">>,
       <<"b", "u", "r", "g", "u", "n", "d", "y">>,
       <<"w", "i", "n", "e">>,
       <<"b", "e", "r", "r", "y">>>>

\* "kw in text_lower" for some kw of the list.
AnyKeywordIn(keywords, text_lower) ==
    \E k \in 1..Len(keywords) : Contains(text_lower, keywords[k])

_check_keywords(text) ==
    IF text = <<>> THEN 0
    ELSE LET text_lower == Lower(text)
         IN  IF AnyKeywordIn(strong_keywords, text_lower) THEN 900
             ELSE IF AnyKeywordIn(medium_keywords, text_lower) THEN 700
             ELSE IF AnyKeywordIn(weak_keywords, text_lower) THEN 500
             ELSE 0

\* What is behind an image URL: the download fails, the bytes do not decode,
\* or an image with the scores of its dominant colour, of its best palette
\* colour and of its histogram.
Image(fault, dominant, palette, histogram) ==
    [fault |-> fault, dominant |-> dominant, palette |-> palette,
     histogram |-> histogram]

\* _analyze_image: max(dominant, palette * 0.9, histogram * 0.8); an exception
\* is caught and 0.0 returned.
_analyze_image(image) ==
    IF image.fault # "none" THEN 0
    ELSE Max(image.dominant,
             Max((image.palette * 9) \div 10, (image.histogram * 8) \div 10))

\* The loop over item.image_urls[:3]: the positive image scores, in order.
RECURSIVE image_scores(_)
image_scores(image_urls) ==
    IF image_urls = <<>> THEN <<>>
    ELSE LET image_score == _analyze_image(Head(image_urls))
         IN  (IF image_score > 0 THEN <<image_score>> ELSE <<>>)
                 \o image_scores(Tail(image_urls))

FirstThree(image_urls) == SubSeq(image_urls, 1, Min(3, Len(image_urls)))

RECURSIVE MaxOf(_)
MaxOf(scores) ==
    IF Len(scores) = 1 THEN scores[1] ELSE Max(Head(scores), MaxOf(Tail(scores)))

\* A faulty variant of analyze_item: the keyword-only score is not discounted.
analyze_item_best_match(item) ==
    LET keyword_score == _check_keywords(item.title)
        scores == (IF keyword_score > 0 THEN <<keyword_score>> ELSE <<>>)
                      \o image_scores(FirstThree(item.image_urls))
    IN  IF scores = <<>> THEN 0 ELSE MaxOf(scores)

\* ColorAnalyzer.analyze_item, lines 34-63.
analyze_item(item) ==
    LET keyword_score == _check_keywords(item.title)
        scores == (IF keyword_score > 0 THEN <<keyword_score>> ELSE <<>>)
                      \o image_scores(FirstThree(item.image_urls))
    IN  IF scores = <<>> THEN 0
        ELSE IF Len(scores) = 1 /\ keyword_score > 0
             THEN (keyword_score * 7) \div 10
             ELSE MaxOf(scores)

\* The items analyze_item is called on.
MaxImages == 4         \* image URLs of one item

AnalyzerTitles ==
    {<<>>, <<"v", "a", "s", "e">>, <<"P", "L", "u", "M">>, <<"p", "l", "u", "m">>, <<"g", "r", "a", "p", "e">>,
     <<"w", "i", "n", "e">>, <<"w", "i", "n", "e", " ", "P", "L", "U", "M">>}

AnalyzerImages ==
    {Image("download", 0, 0, 0), Image("decode", 0, 0, 0),
     Image("none", 0, 0, 0), Image("none", 0, 0, 300),
     Image("none", 500, 800, 950)}

AnalyzerItems ==
    {[title |-> t, image_urls |-> u] :
        t \in AnalyzerTitles, u \in SeqsUpTo(AnalyzerImages, MaxImages)}

AnalyzeItem ==
    /\ an_score = None
    /\ an_score' = Some(analyze_item(an_item))
    /\ UNCHANGED <<an_item, rank_input, rank_output>>
    /\ UNCHANGED notPureVars

InitAnalyzer ==
    /\ CoreIdle
    /\ RetryIdle
    /\ CacheEmpty
    /\ RobotsEmpty
    /\ SearchIdle
    /\ an_item \in AnalyzerItems
    /\ an_score = None
    /\ rank_input = <<>>
    /\ rank_output = <<>>

NextAnalyzer == AnalyzeItem

SpecAnalyzer == InitAnalyzer /\ [][NextAnalyzer]_vars

\* ---- Properties of analyze_item ----

\* The scores of the first three images of the item.
ImageScoresOf(item) ==
    {_analyze_image(item.image_urls[i]) : i \in 1..Min(3, Len(item.image_urls))}

PlumWord == <<"p", "l", "u", "m">>

\* C23: analyze_item returns 0.0 when the title matches no keyword and no
\* image has a positive score; 0.7 times the keyword score when the keyword
\* score is the only positive score (0.63 for a title with "plum" in any
\* case); otherwise the greatest of the keyword score and the scores of the
\* first three images, a failed download or decoding counting as nothing.
C23_AnalyzeItem ==
    an_score # None =>
        LET keyword_score == _check_keywords(an_item.title)
            positive == {x \in ImageScoresOf(an_item) : x > 0}
            best == CHOOSE m \in positive \cup {keyword_score} :
                        \A x \in positive \cup {keyword_score} : x <= m
        IN  /\ (keyword_score = 0 /\ positive = {}) => Val(an_score) = 0
            /\ (keyword_score > 0 /\ positive = {}) =>
                  Val(an_score) * 10 = keyword_score * 7
            /\ (Contains(Lower(an_item.title), PlumWord) /\ positive = {}) =>
                  Val(an_score) = 630
            /\ positive # {} => Val(an_score) = best

\* analyze_item returned 0.63 for a title with "PLuM" whose three first
\* images failed or scored nothing; the fourth, a plum image, was not looked at.
C23_Witness ==
    /\ an_score = Some(630)
    /\ an_item.title # Lower(an_item.title)
    /\ Len(an_item.image_urls) = 4
    /\ _analyze_image(an_item.image_urls[4]) > 0
    /\ \E i \in 1..3 : an_item.image_urls[i].fault = "download"
    /\ \E i \in 1..3 : an_item.image_urls[i].fault = "decode"


----------------------------------------------------------------------------
\* calculate_score and the descending sort (main.py:190-196) applied to two
\* items that passed the colour gate.

\* hours_old of a posted_date: a week and more ago, now, or in the future
\* (a negative number of hours).
RankAges == {None, Some(-24), Some(0), Some(84), Some(168), Some(200)}

RankPrices == {None, Some(0), Some(100), Some(500), Some(600)}

RankDistances == {None, Some(0), Some(10), Some(20), Some(30)}

RankColors == {300, 630, 1000}

RankItem(id, color, age, price, distance, shippable) ==
    [id |-> id, title |-> "", price |-> price, url |-> id, image_urls |-> <<>>,
     location |-> None, posted_date |-> age, source |-> "ebay",
     distance_miles |-> distance, color_score |-> color,
     shippable |-> shippable, score |-> None]

\* Two items that differ at most in color_score.
RankInputs ==
    {<<RankItem("a", ca, age, price, distance, shippable),
       RankItem("b", cb, age, price, distance, shippable)>> :
        ca \in RankColors, cb \in RankColors, age \in RankAges,
        price \in RankPrices, distance \in RankDistances,
        shippable \in BOOLEAN}

\* Lines 192-196: every item gets its _score, the list is sorted descending.
RankItems ==
    /\ rank_output = <<>>
    /\ rank_output' = SortByScoreDesc(<<>>, WithScore(rank_input))
    /\ UNCHANGED <<rank_input, an_item, an_score>>
    /\ UNCHANGED notPureVars

InitRank ==
    /\ CoreIdle
    /\ RetryIdle
    /\ CacheEmpty
    /\ RobotsEmpty
    /\ SearchIdle
    /\ an_item = [title |-> <<>>, image_urls |-> <<>>]
    /\ an_score = None
    /\ rank_input \in RankInputs
    /\ rank_output = <<>>

NextRank == RankItems

SpecRank == InitRank /\ [][NextRank]_vars

\* ---- Properties of calculate_score ----

\* The item of the given id in the sorted list, and its place there.
PlaceOf(id) == CHOOSE k \in 1..Len(rank_output) : rank_output[k].id = id

ScoreOf(id) == Val(rank_output[PlaceOf(id)].score)

SameButColor(x, y) ==
    /\ x.posted_date = y.posted_date
    /\ x.price = y.price
    /\ x.distance_miles = y.distance_miles
    /\ x.shippable = y.shippable

\* C24: of two items with the same posted_date, price, distance_miles and
\* shippable, the one with the strictly higher color_score has the strictly
\* higher score and stands earlier in the sorted list.
C24_HigherColorRanksHigher ==
    rank_output # <<>> =>
        \A i, j \in 1..Len(rank_input) :
            (/\ SameButColor(rank_input[i], rank_input[j])
             /\ rank_input[i].color_score > rank_input[j].color_score) =>
                /\ ScoreOf(rank_input[i].id) > ScoreOf(rank_input[j].id)
                /\ PlaceOf(rank_input[i].id) < PlaceOf(rank_input[j].id)

\* The item that came second has the higher color_score and stands first
\* after the sort.
C24_Witness ==
    /\ rank_output # <<>>
    /\ rank_input[1].color_score = 300
    /\ rank_input[2].color_score = 1000
    /\ rank_output[1].id = rank_input[2].id
    /\ rank_output[2].id = rank_input[1].id

\* The three components, as shares of their weights (0.3, 0.15, 0.15 of
\* ScoreDen), lie between 0 and 1.
ComponentsInRange(item) ==
    /\ recency_score(item) \in 0..((ScoreDen * 3) \div 10)
    /\ price_score(item) \in 0..((ScoreDen * 15) \div 100)
    /\ proximity_score(item) \in 0..((ScoreDen * 15) \div 100)

\* C29: for an item with color_score in [0,1], whatever its posted_date,
\* price, distance_miles and shippable, the score lies in [0,1] and so does
\* each of its recency, price and proximity components.
C29_ScoreInUnitInterval ==
    \A k \in 1..Len(rank_output) :
        /\ Val(rank_output[k].score) \in 0..ScoreDen
        /\ ComponentsInRange(rank_output[k])

\* The same for the items whose posted_date is not in the future.
ScoreInRangeForPastDates ==
    \A k \in 1..Len(rank_output) :
        (rank_output[k].posted_date = None \/ Val(rank_output[k].posted_date) >= 0) =>
            /\ Val(rank_output[k].score) \in 0..ScoreDen
            /\ ComponentsInRange(rank_output[k])


\* ---- The response cache across two calls of search ----

\* The call that has returned made a request that was answered with 200.
FetchSucceeded ==
    /\ sc_pc = "returned"
    /\ \E i \in GetAt : net[i].val \in Outcomes200

\* This step is the next call of search, with the query of the call before.
SameQueryAgain == sc_calls' = sc_calls + 1 /\ sc_query' = sc_query

\* The call returns the list of the call before and makes no request.
AnsweredFromCache ==
    /\ sc_pc' = "returned"
    /\ sc_items' = sc_items
    /\ net' = <<>>

\* C25: for Craigslist, OfferUp, Mercari and Poshmark, a search(q) that
\* follows, within the TTL, a search(q) that completed with a successful
\* fetch returns the cached list and makes no request, also when the list is
\* empty.
C25_SecondSearchFromCache ==
    [][(sc \in CachedAdapters /\ FetchSucceeded /\ SameQueryAgain)
          => AnsweredFromCache]_vars

\* The same when the list is not empty and did not come from the fallback
\* search of OfferUp.
NonEmptyFromCache ==
    [][(/\ sc \in CachedAdapters
        /\ FetchSucceeded
        /\ SameQueryAgain
        /\ sc_items # "empty"
        /\ \A i \in GetAt : net[i].url # Url.offerup.fallback)
          => AnsweredFromCache]_vars


\* ---------------------------------------------------------------------------
\* Digests across runs.

\* The ids of earlier digests whose row is still in seen_items.
DigestedBefore == (delivered \cup undelivered) \cap DOMAIN seen_items

Selecting == pc \in {"enrich", "persist"}

\* C26: the digest a run has selected has no id of the digest of an earlier
\* run whose row is still in seen_items, whether that digest was sent or not.
C26_NoIdInTwoDigests ==
    Selecting => Ids(top_items) \cap DigestedBefore = {}

\* C26 witness: a later run has selected its digest while an item of a sent
\* digest and an item of a digest that was not sent were both scraped again.
C26_Witness ==
    /\ pc = "persist"
    /\ top_items # <<>>
    /\ \E id \in delivered \ undelivered : id \in DOMAIN seen_items /\ id \in Ids(all_items)
    /\ \E id \in undelivered \ delivered : id \in DOMAIN seen_items /\ id \in Ids(all_items)


\* A row of id appears, or its last_seen_at changes, in this step.
RowWritten(id) ==
    /\ id \in DOMAIN seen_items'
    /\ \/ id \notin DOMAIN seen_items
       \/ seen_items'[id].last_seen_at # seen_items[id].last_seen_at

BeforePersist == pc \in {"analyze", "gate", "rank", "enrich", "persist"}

\* C27: a run writes rows for exactly the ids of top_items: a row appears or
\* gets a new last_seen_at only in the mark_seen step and only for an id of
\* top_items, that step gives every id of top_items a row with last_seen_at =
\* now and leaves every other row as it was; a scraped item without a row is
\* among the new items of the run that scraped it.
C27_RowsOnlyForTopItems ==
    /\ [][\A id \in DOMAIN seen_items' :
             RowWritten(id) => pc = "persist" /\ id \in Ids(top_items)]_vars
    /\ [][pc = "persist" =>
             /\ DOMAIN seen_items' = DOMAIN seen_items \cup Ids(top_items)
             /\ \A id \in Ids(top_items) : seen_items'[id].last_seen_at = now
             /\ \A id \in DOMAIN seen_items \ Ids(top_items) :
                   seen_items'[id] = seen_items[id]]_vars
    /\ [](BeforePersist =>
             \A i \in 1..Len(all_items) :
                 all_items[i].id \notin DOMAIN seen_items =>
                     all_items[i].id \in Ids(new_items))

\* C27 witness: mark_seen is done in a run that scraped an item seen by an
\* earlier run and a new item below the gate: the new one has no row, the seen
\* one kept its last_seen_at, the digest's items have theirs.
C27_Witness ==
    /\ pc = "send"
    /\ top_items # <<>>
    /\ \E i \in 1..Len(all_items) :
          /\ all_items[i].id \in DOMAIN seen_items
          /\ all_items[i].id \notin Ids(new_items)
          /\ seen_items[all_items[i].id].last_seen_at < now
    /\ \E i \in 1..Len(new_items) :
          /\ new_items[i].color_score < COLOR_THRESHOLD
          /\ new_items[i].id \notin DOMAIN seen_items

\* mark_seen is done in a run with more items at the gate than the digest
\* takes: the one left out has no row.
LeftOutHasNoRow ==
    /\ pc = "send"
    /\ \E i \in 1..Len(plum_items) :
          /\ plum_items[i].id \notin Ids(top_items)
          /\ plum_items[i].id \notin DOMAIN seen_items


\* ---------------------------------------------------------------------------
\* Early exits of run_pipeline.

\* The run reached the finally block through one of the three returns.
EarlyExit == pc = "finally" /\ top_items = <<>>

NothingScraped == pc = "scrape" /\ si > Len(Scrapers) /\ all_items = <<>>

NothingNew ==
    /\ pc = "scrape" /\ si > Len(Scrapers) /\ all_items # <<>>
    /\ filter_new_items(seen_items, all_items) = <<>>

NothingAtGate ==
    pc = "gate" /\ \A i \in 1..Len(new_items) : new_items[i].color_score < COLOR_THRESHOLD

BeforeSelection == pc \in {"scrape", "analyze", "gate"} \/ (pc = "idle" /\ pc' = "scrape")

\* C28: a run with nothing scraped, nothing new or nothing at the gate goes to
\* the finally block; a run that got there this way raised nothing and
\* executed none of mark_seen, send_digest, mark_sent, cleanup_old_items and
\* get_stats; none of its steps changed seen_items, email_history or the set
\* of delivered ids; and its next step closes every scraper, the colour
\* analyzer and the tracker.
C28_EarlyExit ==
    /\ [][(NothingScraped \/ NothingNew \/ NothingAtGate) =>
             pc' = "finally" /\ top_items' = <<>>]_vars
    /\ [](EarlyExit =>
             /\ exc = "none"
             /\ ~success
             /\ Range(log) \subseteq {"scrape", "filter", "analyze", "gate"})
    /\ [][(BeforeSelection \/ EarlyExit) =>
             /\ seen_items' = seen_items
             /\ email_history' = email_history
             /\ delivered' = delivered]_vars
    /\ [][EarlyExit => closed' = Components /\ pc' = "idle"]_vars

\* C28 witness: a run stopped by the gate is at its finally block, nothing
\* closed yet, while rows of an earlier digest are in the database.
C28_Witness ==
    /\ EarlyExit
    /\ log[Len(log)] = "gate"
    /\ closed = {}
    /\ seen_items # EmptyStore

\* The two earlier returns: nothing scraped, nothing new.
ExitNothingScraped == EarlyExit /\ all_items = <<>>

ExitNothingNew == EarlyExit /\ log # <<>> /\ log[Len(log)] = "filter"


\* ---------------------------------------------------------------------------
\* retry_on_failure with an operation that succeeds.

Succeeded(out) == out.kind # "raise"

\* C30: in retry_on_failure, while every call so far raised and fewer than
\* max_retries + 1 calls were made, the loop goes on; a call that does not
\* raise is the last one, every call before it raised, the executor has
\* returned its value, and with it being call k there were exactly k - 1
\* sleeps; an executor that has ended makes no call and no sleep.
C30_ReturnsFirstSuccess ==
    /\ [](retry_fn = "retry_on_failure" =>
             /\ (AllRaise(calls) /\ Len(calls) < max_retries + 1) =>
                   retry_pc = "loop" /\ attempt = Len(calls)
             /\ \A k \in DOMAIN calls : Succeeded(calls[k]) =>
                   /\ k = Len(calls)
                   /\ k <= max_retries + 1
                   /\ \A j \in 1..(k - 1) : calls[j].kind = "raise"
                   /\ retry_pc = "returned"
                   /\ retry_result = Some(calls[k])
                   /\ Len(sleeps) = k - 1)
    /\ [][(retry_fn = "retry_on_failure" /\ RetryEnded) =>
             calls' = calls /\ sleeps' = sleeps]_vars

\* C30 witness: with max_retries = 3 the operation raised twice and returned
\* a value from its third call; retry_on_failure slept twice and returned it.
C30_Witness ==
    /\ retry_fn = "retry_on_failure"
    /\ max_retries = 3
    /\ retry_pc = "returned"
    /\ calls = <<Raised(1), Raised(2), Returned("value", 0)>>
    /\ Len(sleeps) = 2
    /\ retry_result = Some(Returned("value", 0))

====
